---- MODULE Spec2Model ----
(***************************************************************************)
(* A model of the tools of olusolaa/goforai.                               *)
(*                                                                         *)
(*  - edit_go_file (foundation/tools/editfile.go): the exact-text edit of  *)
(*    a Go file, with its read, its uniqueness and syntax checks, gofmt    *)
(*    and its os.WriteFile, run by one caller (Spec) or by two callers and *)
(*    a reader at once (ConcSpec).                                         *)
(*                                                                         *)
(*  - search_files, the content search (searchContentsConcurrently and     *)
(*    searchFileContent): the worker pool over the candidate files, with   *)
(*    its job and result channels and its WaitGroup (SearchSpec).          *)
(*                                                                         *)
(* File content is a sequence of characters over Chars.  "(" and ")" stand *)
(* for the tokens the Go parser has to balance, " " for the white space    *)
(* that gofmt canonicalises.                                               *)
(***************************************************************************)
EXTENDS Integers, Sequences, FiniteSets, TLC

\* ------------------------------------------------------------------ bounds

\* longest content of the file on disk before a call
MaxLen == 3
\* longest old_string of a request (0: the empty old_string)
MaxOld == 2
\* longest new_string of a request (0: delete the old_string)
MaxNew == 1
\* most candidate files of a content search
MaxFiles == 3
\* most workers of a content search (runtime.NumCPU())
MaxWorkers == 3
\* most lines of a file whose content is searched alone
MaxLines == 3
\* most files of the tree that a call of search_files runs on
MaxTreeFiles == 2
\* most lines (imports and top-level declarations) of the Go file before a
\* structured edit
MaxDecls == 2
\* most turns of a conversation with the step-5 agent
MaxTurns == 2
\* most lines of a file given to read_file
MaxReadLines == 3
\* the read cap of the streaming read_file, 5000 lines in the source, scaled
\* down so that a file of MaxReadLines lines is longer than the cap
maxLinesToRead == 2
\* the largest numerator of an operand of the calculator
MaxNum == 2
\* most chunks of one stream of the chat loops
MaxChunks == 2
\* most tools that one run of the graph starts
MaxTools == 3

\* ------------------------------------------------------ strings and files

Chars == {"(", ")", " "}

RECURSIVE SeqsUpTo(_)
SeqsUpTo(n) ==
  IF n = 0 THEN {<<>>}
  ELSE LET S == SeqsUpTo(n - 1)
       IN  S \cup {Append(s, c) : s \in {t \in S : Len(t) = n - 1}, c \in Chars}

\* s[i..] starts with sub (1-indexed i)
HasPrefixAt(s, sub, i) ==
  /\ i >= 1
  /\ i + Len(sub) - 1 <= Len(s)
  /\ SubSeq(s, i, i + Len(sub) - 1) = sub

\* strings.Index, 1-indexed; 0 when sub does not occur
Index(s, sub) ==
  LET at == {i \in 1..(Len(s) + 1) : HasPrefixAt(s, sub, i)}
  IN  IF at = {} THEN 0 ELSE CHOOSE i \in at : \A j \in at : i <= j

\* strings.Contains
Contains(s, sub) == Index(s, sub) # 0

\* strings.Count: the NON-OVERLAPPING instances of sub in s, scanning from the
\* left and skipping a whole instance after each hit; Len(s)+1 for an empty sub
RECURSIVE CountFrom(_, _, _)
CountFrom(s, sub, i) ==
  IF i + Len(sub) - 1 > Len(s) THEN 0
  ELSE IF HasPrefixAt(s, sub, i) THEN 1 + CountFrom(s, sub, i + Len(sub))
  ELSE CountFrom(s, sub, i + 1)

Count(s, sub) == IF sub = <<>> THEN Len(s) + 1 ELSE CountFrom(s, sub, 1)

\* strings.Replace(s, old, new, 1): the first instance replaced, or s itself
Replace(s, old, new) ==
  LET i == Index(s, old)
  IN  IF i = 0 THEN s
      ELSE SubSeq(s, 1, i - 1) \o new \o SubSeq(s, i + Len(old), Len(s))

\* parser.ParseFile: the brackets balance and never close below zero
RECURSIVE Depth(_, _)
Depth(s, d) ==
  IF d < 0 THEN -1
  ELSE IF s = <<>> THEN d
  ELSE Depth(Tail(s), IF Head(s) = "(" THEN d + 1
                      ELSE IF Head(s) = ")" THEN d - 1 ELSE d)

ParseOK(s) == Depth(s, 0) = 0

\* format.Source: runs of white space collapse to a single one
RECURSIVE Format(_)
Format(s) ==
  IF Len(s) < 2 THEN s
  ELSE IF s[1] = " " /\ s[2] = " " THEN Format(Tail(s))
  ELSE <<s[1]>> \o Format(Tail(s))

\* --------------------------------------------------------- the file system

\* the one Go file of the tree; "g.go" names no file
ExistingPath == "f.go"
Paths == {"", ExistingPath, "g.go"}

\* permission bits of the file: 0644, 0600, 0755, 0444 (read-only), 0200 (write-only)
Modes == {420, 384, 493, 292, 128}
CanRead(m) == (m \div 256) % 2 = 1
CanWrite(m) == (m \div 128) % 2 = 1

\* the perm argument of os.WriteFile
WritePerm == 420

Contents == SeqsUpTo(MaxLen)

\* ---------------------------------------------------- edit_go_file: values

Editors == {1, 2}

\* a formatted string: the format and the numbers it prints
Text(t, args) == [text |-> t, args |-> args]
\* the empty string
NoText == Text("", <<>>)

Requests ==
  [Path : Paths, OldString : SeqsUpTo(MaxOld), NewString : SeqsUpTo(MaxNew)]

NoRequest == [Path |-> "", OldString |-> <<>>, NewString |-> <<>>]
\* the error value of Go that a handler returns next to its response
NilError == "nil"

NoResponse == [Message |-> NoText, Error |-> NoText, err |-> NilError]

\* return &EditFileResponse{Error: ...}, nil
ErrorResponse(t, args) == [Message |-> NoText, Error |-> Text(t, args), err |-> NilError]

VARIABLES
  disk,     \* content of f.go
  mode,     \* permission bits of f.go
  before,   \* content of f.go before any call (history)
  mode0,    \* permission bits of f.go before any call (history)
  epc,      \* editor -> "idle" | "called" | "open" | "write" | "done"
  req,      \* editor -> its EditFileRequest
  orig,     \* editor -> originalContent
  data,     \* editor -> formattedContent
  resp,     \* editor -> its EditFileResponse
  rpc,      \* the reader: "idle" | "done"
  seen      \* what the reader's os.ReadFile returned

editVars == <<disk, mode, before, mode0, epc, req, orig, data, resp, rpc, seen>>

VARIABLES
  tree,         \* path -> the file at that path (fixed during a search)
  files,        \* the candidate paths handed to searchContentsConcurrently
  numWorkers,   \* runtime.NumCPU()
  mpc,          \* the caller: "spawn" | "enqueue" | "wait" | "collect" | "returned"
  spawned,      \* workers started so far
  next,         \* index in files of the next job to enqueue
  jobs,         \* the buffered channel jobs
  jobsClosed,   \* close(jobs) was called
  results,      \* the buffered channel results
  resultsClosed,\* close(results) was called
  wg,           \* the WaitGroup's counter
  wpc,          \* worker -> "none" | "recv" | "send" | "exited" | "panic"
  held,         \* worker -> the match it is about to send
  matches       \* the slice returned

searchVars == <<tree, files, numWorkers, mpc, spawned, next, jobs, jobsClosed,
                results, resultsClosed, wg, wpc, held, matches>>

VARIABLES
  tool,     \* the tool the agent calls: "edit_go_file" | "search_files"
  impl,     \* the search_files in use: 1 parallel (part_003), 2 serial (searchfiles.go)
  fs,       \* the files below the working directory (their paths)
  treq,     \* the SearchFilesRequest
  tpc,      \* "idle" | "stat" | "compile" | "collect" | "globstat" | "walk" | "finish" | "done"
  pend,     \* the listed entries still to visit
  cand,     \* v1: candidateFiles; v2: matches, as built so far
  tresp,    \* the SearchFilesResponse and the error returned with it
  fsops,    \* the kinds of file-system operation performed so far (history)
  removed   \* what another process has removed during the call (history)

toolVars == <<tool, impl, fs, treq, tpc, pend, cand, tresp, fsops, removed>>

VARIABLES
  afile,    \* the Go file of the structured edits: its lines
  afile1,   \* the file after the first of the two calls (history)
  apc,      \* "idle" | "first" | "second" | "done"
  aop,      \* the structured edit that is applied twice
  aresp     \* the reports of the calls so far

astVars == <<afile, afile1, apc, aop, aresp>>

VARIABLES
  agent,         \* which step-5 agent runs: "sync" (agent.go) | "copy" (main.go)
  conversation,  \* a.conversation: the messages kept for later turns
  gpc,           \* the loop of Run: "input" | "display"
  turn,          \* the number of turns started
  History,       \* the History passed to the graph, by turn (history)
  stream,        \* how the stream of each turn ends, by turn
  saver          \* the goroutine that collects each turn's copy, by turn

agentVars == <<agent, conversation, gpc, turn, History, stream, saver>>

VARIABLES
  reader,   \* which read_file runs: "stream" (bufio.Scanner) | "whole" (os.ReadFile)
  target,   \* what the path names: a file, a directory or nothing
  rreq,     \* the request of the call
  rdpc,     \* "idle" | "called" | "done"
  rresp     \* the response

readVars == <<reader, target, rreq, rdpc, rresp>>

VARIABLES
  creq,     \* the request of the calculator call
  cpc,      \* "idle" | "called" | "done"
  cresp     \* what the call returned: the response and the error

calcVars == <<creq, cpc, cresp>>

VARIABLES
  step,        \* which chat loop runs: 2 | 4
  lpc,         \* the loop of Run: "input" | "recv" | "panic"
  lturn,       \* the number of turns started
  firstChunk,  \* no chunk of this turn's stream has been received
  chunks,      \* the number of chunks received in this turn
  doneCh,      \* the done channel of each turn: "none" | "open" | "closed"
  closes,      \* how often close(done) was called in each turn (history)
  ended,       \* how each turn ended: "none" | "fail" | "eof" | "error" (history)
  spin         \* showSpinner of each turn: "none" | "select" | "spin" | "exited"

loopVars == <<step, lpc, lturn, firstChunk, chunks, doneCh, closes, ended, spin>>

VARIABLES
  upc,             \* the graph's callbacks: "idle" | "running" | "stopping"
  tools,           \* the number of tools started
  activeToolName,  \* t.activeToolName: 0 for "", else the number of the tool
  isActive,        \* s.isActive
  starting,        \* the tools whose go t.spinner.Start(msg) has not run yet
  live,            \* the number of goroutines in the spinner's select loop
  frame            \* i % len(frames) of the spinner that prints

uiVars == <<upc, tools, activeToolName, isActive, starting, live, frame>>

\* the variables of the file tools
fileVars == <<editVars, searchVars, toolVars, astVars>>

\* the variables of the other programs
restVars == <<agentVars, readVars, calcVars, loopVars, uiVars>>

notAgent == <<fileVars, readVars, calcVars, loopVars, uiVars>>
notRead == <<fileVars, agentVars, calcVars, loopVars, uiVars>>
notCalc == <<fileVars, agentVars, readVars, loopVars, uiVars>>
notLoop == <<fileVars, agentVars, readVars, calcVars, uiVars>>
notUi == <<fileVars, agentVars, readVars, calcVars, loopVars>>

vars == <<fileVars, restVars>>

\* ------------------------------------------------- edit_go_file: the handler

\* EditCheck without its syntax check
EditCheckNoParse(content, old, new) ==
  IF ~Contains(content, old)
    THEN Text("old_string not found in file", <<>>)
  ELSE IF Count(content, old) > 1
    THEN Text("old_string appears %d times in file", <<Count(content, old)>>)
  ELSE NoText

\* EditCheck without its strings.Contains check
EditCheckNoContains(content, old, new) ==
  IF Count(content, old) > 1
    THEN Text("old_string appears %d times in file", <<Count(content, old)>>)
  ELSE IF ~ParseOK(Replace(content, old, new))
    THEN Text("syntax error after modification", <<>>)
  ELSE NoText

\* the checks between the read and the write: the error of the first check
\* that fails, NoText when the modified content may be written
EditCheck(content, old, new) ==
  IF ~Contains(content, old)
    THEN Text("old_string not found in file", <<>>)
  ELSE IF Count(content, old) > 1
    THEN Text("old_string appears %d times in file", <<Count(content, old)>>)
  ELSE IF ~ParseOK(Replace(content, old, new))
    THEN Text("syntax error after modification", <<>>)
  ELSE NoText

\* format.Source and its fallback to the unformatted content
FormattedContent(modified, formatErr) ==
  IF formatErr THEN modified ELSE Format(modified)

\* the success message
SuccessMessage(old, new) ==
  LET oldLen == Len(old)
      newLen == Len(new)
  IN  IF newLen = 0 THEN Text("Deleted %d characters", <<oldLen>>)
      ELSE IF oldLen > newLen
        THEN Text("Replaced %d characters with %d characters (-%d)",
                  <<oldLen, newLen, oldLen - newLen>>)
      ELSE IF newLen > oldLen
        THEN Text("Replaced %d characters with %d characters (+%d)",
                  <<oldLen, newLen, newLen - oldLen>>)
      ELSE Text("Replaced %d characters", <<oldLen>>)

\* a write that sets the permission bits to its perm argument
WriteFileModeSetsPerm(m, perm) == perm

\* os.WriteFile opens with O_WRONLY|O_CREATE|O_TRUNC: perm is used only when
\* the file is created, an existing file keeps its permission bits
WriteFileMode(m, perm) == m

\* a write of bytes at offset 0 of a file that holds `file`
WriteAt(file, bytes) == bytes \o SubSeq(file, Len(bytes) + 1, Len(file))

\* a caller invokes the tool with a request of R
EditCallIn(e, R) ==
  /\ epc[e] = "idle"
  /\ \E r \in R : req' = [req EXCEPT ![e] = r]
  /\ epc' = [epc EXCEPT ![e] = "called"]
  /\ UNCHANGED <<disk, mode, before, mode0, orig, data, resp, rpc, seen, searchVars, toolVars, astVars, restVars>>

EditCall(e) == EditCallIn(e, Requests)

\* the argument checks, os.ReadFile, the checks of the content, gofmt
EditRead(e) ==
  /\ epc[e] = "called"
  /\ LET r == req[e]
         fail(t) ==
           /\ resp' = [resp EXCEPT ![e] = ErrorResponse(t, <<>>)]
           /\ epc' = [epc EXCEPT ![e] = "done"]
           /\ UNCHANGED <<orig, data>>
     IN  IF r.Path = "" THEN fail("path cannot be empty")
         ELSE IF r.OldString = <<>> THEN fail("old_string cannot be empty")
         ELSE IF r.Path # ExistingPath THEN fail("file not found")
         ELSE IF ~CanRead(mode) THEN fail("failed to read file")
         ELSE LET err == EditCheck(disk, r.OldString, r.NewString)
              IN  IF err # NoText
                    THEN /\ resp' = [resp EXCEPT ![e] = ErrorResponse(err.text, err.args)]
                         /\ epc' = [epc EXCEPT ![e] = "done"]
                         /\ orig' = [orig EXCEPT ![e] = disk]
                         /\ UNCHANGED data
                    ELSE /\ \E formatErr \in BOOLEAN :
                              data' = [data EXCEPT ![e] =
                                FormattedContent(Replace(disk, r.OldString, r.NewString),
                                                 formatErr)]
                         /\ orig' = [orig EXCEPT ![e] = disk]
                         /\ epc' = [epc EXCEPT ![e] = "open"]
                         /\ UNCHANGED resp
  /\ UNCHANGED <<disk, mode, before, mode0, req, rpc, seen, searchVars, toolVars, astVars, restVars>>

\* os.WriteFile, first half: the open truncates the file, or fails
EditOpen(e) ==
  /\ epc[e] = "open"
  /\ IF CanWrite(mode)
       THEN /\ disk' = <<>>
            /\ mode' = WriteFileMode(mode, WritePerm)
            /\ epc' = [epc EXCEPT ![e] = "write"]
            /\ UNCHANGED resp
       ELSE /\ resp' = [resp EXCEPT ![e] = ErrorResponse("failed to write file", <<>>)]
            /\ epc' = [epc EXCEPT ![e] = "done"]
            /\ UNCHANGED <<disk, mode>>
  /\ UNCHANGED <<before, mode0, req, orig, data, rpc, seen, searchVars, toolVars, astVars, restVars>>

\* os.WriteFile, second half: the write at offset 0 succeeds
EditWrite(e) ==
  /\ epc[e] = "write"
  /\ disk' = WriteAt(disk, data[e])
  /\ resp' = [resp EXCEPT ![e] =
       [Message |-> SuccessMessage(req[e].OldString, req[e].NewString),
        Error |-> NoText, err |-> NilError]]
  /\ epc' = [epc EXCEPT ![e] = "done"]
  /\ UNCHANGED <<mode, before, mode0, req, orig, data, rpc, seen, searchVars, toolVars, astVars, restVars>>

\* os.WriteFile, second half: the write fails (disk full, I/O error) after k
\* of the bytes
EditWriteFail(e) ==
  /\ epc[e] = "write"
  /\ \E k \in 0..(Len(data[e]) - 1) :
       disk' = WriteAt(disk, SubSeq(data[e], 1, k))
  /\ resp' = [resp EXCEPT ![e] = ErrorResponse("failed to write file", <<>>)]
  /\ epc' = [epc EXCEPT ![e] = "done"]
  /\ UNCHANGED <<mode, before, mode0, req, orig, data, rpc, seen, searchVars, toolVars, astVars, restVars>>

\* another reader of the file (a search worker's os.ReadFile)
ReaderRead ==
  /\ rpc = "idle"
  /\ seen' = disk
  /\ rpc' = "done"
  /\ UNCHANGED <<disk, mode, before, mode0, epc, req, orig, data, resp, searchVars, toolVars, astVars, restVars>>

\* ---------------------------------------------- search_files: the content

\* a line of a file: "m" matches the contains regex, "n" does not, "L" is a
\* line longer than bufio.MaxScanTokenSize (64 KiB)
LineKinds == {"m", "n", "L"}

\* re.MatchString(line)
Matches(line) == line = "m"

\* a file: whether os.ReadFile succeeds, whether http.DetectContentType names
\* a type outside text/, and its lines
File(r, b, l) == [readable |-> r, binary |-> b, lines |-> l]

\* the files a candidate path may name
SampleFiles ==
  { File(FALSE, FALSE, <<"m">>),
    File(TRUE, TRUE, <<"m">>),
    File(TRUE, FALSE, <<>>),
    File(TRUE, FALSE, <<"n">>),
    File(TRUE, FALSE, <<"n", "m">>),
    File(TRUE, FALSE, <<"L", "m">>) }

NoMatch == [File |-> 0, Lines |-> <<>>, Snippets |-> <<>>, TotalLines |-> 0]

Min(a, b) == IF a < b THEN a ELSE b
Max(a, b) == IF a > b THEN a ELSE b

\* the first pass: bufio.Scanner yields the lines up to the first one that is
\* longer than its buffer, where Scan() returns false
RECURSIVE ScanLines(_)
ScanLines(l) ==
  IF l = <<>> \/ Head(l) = "L" THEN <<>>
  ELSE <<Head(l)>> \o ScanLines(Tail(l))

\* the snippet of the match at 0-indexed line i: lines max(0,i-2) .. min(len,i+3)-1,
\* each with its prefix, its 1-indexed number and its text
Snippet(lines, i) ==
  LET start == Max(0, i - 2)
      end == Min(Len(lines), i + 3)
  IN  [k \in 1..(end - start) |->
         LET j == start + k - 1
         IN  [mark |-> (j = i), num |-> j + 1, text |-> lines[j + 1]]]

\* the second pass, from 0-indexed line i on: the matched lines and snippets
RECURSIVE MatchFrom(_, _, _, _)
MatchFrom(lines, i, matchedLines, snippets) ==
  IF i >= Len(lines) THEN <<matchedLines, snippets>>
  ELSE IF Matches(lines[i + 1])
    THEN MatchFrom(lines, i + 1, Append(matchedLines, i + 1),
                   Append(snippets, Snippet(lines, i)))
  ELSE MatchFrom(lines, i + 1, matchedLines, snippets)

\* a search that leaves the File of its FileMatch unset
searchFileContentNoFile(filePath, f) ==
  IF ~f.readable THEN NoMatch
  ELSE IF f.lines # <<>> /\ f.binary THEN NoMatch
  ELSE LET lines == ScanLines(f.lines)
           found == MatchFrom(lines, 0, <<>>, <<>>)
       IN  IF Len(found[1]) = 0 THEN NoMatch
           ELSE [File |-> 0, Lines |-> found[1], Snippets |-> found[2],
                 TotalLines |-> Len(lines)]
\* searchFileContent(filePath, re) on the file f at filePath
searchFileContent(filePath, f) ==
  IF ~f.readable THEN NoMatch
  ELSE IF f.lines # <<>> /\ f.binary THEN NoMatch
  ELSE LET lines == ScanLines(f.lines)
           found == MatchFrom(lines, 0, <<>>, <<>>)
       IN  IF Len(found[1]) = 0 THEN NoMatch
           ELSE [File |-> filePath, Lines |-> found[1], Snippets |-> found[2],
                 TotalLines |-> Len(lines)]

\* --------------------------------------- search_files: the worker pool

Workers == 1..MaxWorkers

\* channels that hold one element
ChanCapOne == Min(1, Len(files))
\* cap(jobs) and cap(results)
ChanCap == Len(files)

\* a worker that only checks that the queue is empty
ExitReadyOnEmpty == jobs = <<>>

\* the range over jobs ends: the channel is closed and empty
ExitReady == jobs = <<>> /\ jobsClosed

\* a Wait that does not wait
WaitReadyAlways == TRUE

\* wg.Wait() returns
WaitReady == wg = 0

\* the spawn loop: wg.Add(1) and go func() for the next worker
Spawn ==
  /\ mpc = "spawn"
  /\ spawned < numWorkers
  /\ wg' = wg + 1
  /\ wpc' = [wpc EXCEPT ![spawned + 1] = "recv"]
  /\ spawned' = spawned + 1
  /\ mpc' = IF spawned + 1 = numWorkers THEN "enqueue" ELSE "spawn"
  /\ UNCHANGED <<tree, files, numWorkers, next, jobs, jobsClosed, results,
                 resultsClosed, held, matches, editVars, toolVars, astVars, restVars>>

\* jobs <- file, for the next file
Enqueue ==
  /\ mpc = "enqueue"
  /\ next <= Len(files)
  /\ Len(jobs) < ChanCap
  /\ jobs' = Append(jobs, files[next])
  /\ next' = next + 1
  /\ UNCHANGED <<tree, files, numWorkers, mpc, spawned, jobsClosed, results,
                 resultsClosed, wg, wpc, held, matches, editVars, toolVars, astVars, restVars>>

\* close(jobs)
CloseJobs ==
  /\ mpc = "enqueue"
  /\ next > Len(files)
  /\ jobsClosed' = TRUE
  /\ mpc' = "wait"
  /\ UNCHANGED <<tree, files, numWorkers, spawned, next, jobs, results,
                 resultsClosed, wg, wpc, held, matches, editVars, toolVars, astVars, restVars>>

\* wg.Wait()
Wait ==
  /\ mpc = "wait"
  /\ WaitReady
  /\ mpc' = "collect"
  /\ UNCHANGED <<tree, files, numWorkers, spawned, next, jobs, jobsClosed,
                 results, resultsClosed, wg, wpc, held, matches, editVars, toolVars, astVars, restVars>>

\* close(results), the range over results, return matches
Collect ==
  /\ mpc = "collect"
  /\ resultsClosed' = TRUE
  /\ matches' = results
  /\ results' = <<>>
  /\ mpc' = "returned"
  /\ UNCHANGED <<tree, files, numWorkers, spawned, next, jobs, jobsClosed,
                 wg, wpc, held, editVars, toolVars, astVars, restVars>>

\* a worker receives a path from jobs and searches the file
WorkerTake(w) ==
  /\ wpc[w] = "recv"
  /\ jobs # <<>>
  /\ LET filePath == Head(jobs)
         match == searchFileContent(filePath, tree[filePath])
     IN  /\ jobs' = Tail(jobs)
         /\ IF match # NoMatch
              THEN /\ held' = [held EXCEPT ![w] = match]
                   /\ wpc' = [wpc EXCEPT ![w] = "send"]
              ELSE UNCHANGED <<held, wpc>>
  /\ UNCHANGED <<tree, files, numWorkers, mpc, spawned, next, jobsClosed,
                 results, resultsClosed, wg, matches, editVars, toolVars, astVars, restVars>>

\* results <- *match (a send on a closed channel panics)
WorkerSend(w) ==
  /\ wpc[w] = "send"
  /\ IF resultsClosed
       THEN /\ wpc' = [wpc EXCEPT ![w] = "panic"]
            /\ UNCHANGED results
       ELSE /\ Len(results) < ChanCap
            /\ results' = Append(results, held[w])
            /\ wpc' = [wpc EXCEPT ![w] = "recv"]
  /\ UNCHANGED <<tree, files, numWorkers, mpc, spawned, next, jobs, jobsClosed,
                 resultsClosed, wg, held, matches, editVars, toolVars, astVars, restVars>>

\* the range over jobs ends and the deferred wg.Done() runs
WorkerExit(w) ==
  /\ wpc[w] = "recv"
  /\ ExitReady
  /\ wpc' = [wpc EXCEPT ![w] = "exited"]
  /\ wg' = wg - 1
  /\ UNCHANGED <<tree, files, numWorkers, mpc, spawned, next, jobs, jobsClosed,
                 results, resultsClosed, held, matches, editVars, toolVars, astVars, restVars>>

\* the state of a call of searchContentsConcurrently(files, containsRe)
SearchStart ==
  /\ mpc = "spawn"
  /\ spawned = 0
  /\ next = 1
  /\ jobs = <<>>
  /\ jobsClosed = FALSE
  /\ results = <<>>
  /\ resultsClosed = FALSE
  /\ wg = 0
  /\ wpc = [w \in Workers |-> "none"]
  /\ held = [w \in Workers |-> NoMatch]
  /\ matches = <<>>

\* a tree of at most MaxFiles files, all of them candidates, and a machine
\* with at least one processor
SearchInit ==
  /\ \E n \in 0..MaxFiles :
       /\ tree \in [1..n -> SampleFiles]
       /\ files = [i \in 1..n |-> i]
  /\ numWorkers \in 1..MaxWorkers
  /\ SearchStart

\* no search is running
SearchIdle ==
  /\ tree = <<>>
  /\ files = <<>>
  /\ numWorkers = 1
  /\ SearchStart

SearchNext ==
  \/ Spawn
  \/ Enqueue
  \/ CloseJobs
  \/ Wait
  \/ Collect
  \/ \E w \in Workers :
       \/ WorkerTake(w)
       \/ WorkerSend(w)
       \/ WorkerExit(w)

\* ------------------------------------- search_files: paths and the tree

\* A file or directory name is a sequence of tokens and a path a sequence of
\* names, so that "vendors" contains "vendor" and "a.go" ends in ".go".
NameR == <<"r">>
NameSrc == <<"src">>
NameVendor == <<"vendor">>
NameVendors == <<"vendor", "s">>
NameAGo == <<"a", ".go">>
NameBMd == <<"b", ".md">>
NameNone == <<"none">>

\* the working directory "."
Cwd == <<>>

\* the names in the order of os.ReadDir, sorted by file name
NameOrder == <<NameAGo, NameBMd, NameR, NameSrc, NameVendor, NameVendors>>

\* the files that may exist below the working directory
Universe ==
  { <<NameR, NameAGo>>,
    <<NameR, NameBMd>>,
    <<NameR, NameSrc, NameAGo>>,
    <<NameR, NameVendor, NameAGo>>,
    <<NameR, NameVendors, NameAGo>>,
    <<NameVendor, NameR, NameAGo>> }

Trees == {t \in SUBSET Universe : Cardinality(t) <= MaxTreeFiles}

\* the path as the string Go handles: its names joined by the separator
RECURSIVE Flat(_)
Flat(p) ==
  IF p = <<>> THEN <<".">>
  ELSE IF Len(p) = 1 THEN p[1]
  ELSE p[1] \o <<"/">> \o Flat(Tail(p))

IsPrefix(d, p) == Len(d) <= Len(p) /\ SubSeq(p, 1, Len(d)) = d

IsFile(F, p) == p \in F
IsDir(F, p) == p = Cwd \/ \E f \in F : Len(f) > Len(p) /\ IsPrefix(p, f)
Exists(F, p) == IsFile(F, p) \/ IsDir(F, p)

\* a directory entry: its path and what the listing says it is
Entry(F, p) == [path |-> p, isDir |-> IsDir(F, p)]

\* os.ReadDir(d): the entries of d sorted by name; none when d is no directory
ReadDir(F, d) ==
  LET names == SelectSeq(NameOrder, LAMBDA n : Exists(F, Append(d, n)))
  IN  IF ~IsDir(F, d) THEN <<>>
      ELSE [i \in 1..Len(names) |-> Entry(F, Append(d, names[i]))]

\* everything below d, each directory followed by what is below it
RECURSIVE Below(_, _)
RECURSIVE BelowEach(_, _)
BelowEach(F, es) ==
  IF es = <<>> THEN <<>>
  ELSE <<Head(es)>>
       \o (IF Head(es).isDir THEN Below(F, Head(es).path) ELSE <<>>)
       \o BelowEach(F, Tail(es))
Below(F, d) == BelowEach(F, ReadDir(F, d))

\* the name ends in ".go"
IsGo(p) == p # <<>> /\ p[Len(p)][Len(p[Len(p)])] = ".go"

\* the glob patterns of a request: none, direct children, recursive, all, malformed
Patterns == {"", "*.go", "**/*.go", "**", "["}

\* doublestar.FilepathGlob(filepath.Join(dir, pattern)) for a well-formed pattern
Glob(F, dir, pattern) ==
  IF ~IsDir(F, dir) THEN <<>>
  ELSE IF pattern = "*.go" THEN SelectSeq(ReadDir(F, dir), LAMBDA e : IsGo(e.path))
  ELSE IF pattern = "**/*.go" THEN SelectSeq(Below(F, dir), LAMBDA e : IsGo(e.path))
  ELSE <<Entry(F, dir)>> \o Below(F, dir)

\* skipDirs
SkipDirs ==
  {<<"vendor">>, <<".git">>, <<"node_modules">>, <<".venv">>, <<".idea">>, <<".vscode">>}

\* isPathInSkippedDir(path, skipDirs): some component is a skip-list name
isPathInSkippedDir(p) == \E i \in 1..Len(p) : p[i] \in SkipDirs

\* v2: strings.Contains(path, skipDir) for some skipDir
ContainsSkipDir(p) == \E s \in SkipDirs : Contains(Flat(p), s)

\* the regular expressions of a request: none, a literal, a malformed one
NoRegex == <<>>
BadRegex == <<"[">>
Filters == {NoRegex, <<"src">>, BadRegex}
ContainsRegexes == {NoRegex, <<"m">>, BadRegex}

\* regexp.Compile(re) succeeds
CompileOK(re) == re # BadRegex

\* re.MatchString(path) for a literal re
MatchPath(re, p) == Contains(Flat(p), re)

\* the content of a file, by its name, and whether it ends with a newline
ContentByName(n) ==
  IF n = NameAGo THEN File(TRUE, FALSE, <<"n", "m">>)
  ELSE File(TRUE, FALSE, <<"n">>)
FinalNewline(n) == n = NameAGo

\* what os.ReadFile(p) finds: a missing path and a directory cannot be read
FileAt(F, p) ==
  IF p \in F THEN ContentByName(p[Len(p)]) ELSE File(FALSE, FALSE, <<>>)
\* ------------------------------------------- search_files: the handler

\* the path argument: "" (the working directory), directories, a regular
\* file and a path that does not exist
PathArgs ==
  {Cwd, <<NameR>>, <<NameVendor>>, <<NameVendor, NameR>>, <<NameR, NameAGo>>,
   <<NameNone>>}

SearchRequests ==
  [Path : PathArgs, Pattern : Patterns, Filter : Filters, Contains : ContainsRegexes]

NoSearchRequest == [Path |-> Cwd, Pattern |-> "", Filter |-> NoRegex, Contains |-> NoRegex]

\* return &SearchFilesResponse{Matches: matches}, nil
SearchResponse(ms) == [Matches |-> ms, Error |-> "", err |-> NilError]
\* a handler that returns its failure as the error of Go
SearchErrorAsGoError(text) == [Matches |-> <<>>, Error |-> "", err |-> text]

\* return &SearchFilesResponse{Error: text}, nil
SearchError(text) == [Matches |-> <<>>, Error |-> text, err |-> NilError]

NoSearchResponse == SearchResponse(<<>>)

\* FileMatch{File: file}
ListMatch(file) == [File |-> file, Lines |-> <<>>, Snippets |-> <<>>, TotalLines |-> 0]

\* d.Name()
BaseName(p) == IF p = <<>> THEN <<".">> ELSE p[Len(p)]

\* v2: strings.Split(content, "\n"): an empty string follows a final newline
SplitLines(f, nl) == IF nl \/ f.lines = <<>> THEN Append(f.lines, "") ELSE f.lines

\* v2: searchFileContent(filePath, pattern), File set by its caller
searchFileContentV2(filePath, f, nl, pattern) ==
  IF ~f.readable THEN NoMatch
  ELSE IF ~CompileOK(pattern) THEN NoMatch
  ELSE LET lines == SplitLines(f, nl)
           found == MatchFrom(lines, 0, <<>>, <<>>)
       IN  IF Len(found[1]) = 0 THEN NoMatch
           ELSE [File |-> filePath, Lines |-> found[1], Snippets |-> found[2],
                 TotalLines |-> Len(lines)]

\* v1: the content search of the filtered files, in the order of the list
\* (SearchSpec has the worker pool and its orders)
RECURSIVE SearchContents(_, _)
SearchContents(F, ps) ==
  IF ps = <<>> THEN <<>>
  ELSE LET m == searchFileContent(Flat(Head(ps)), FileAt(F, Head(ps)))
       IN  (IF m.Lines = <<>> THEN <<>> ELSE <<m>>) \o SearchContents(F, Tail(ps))

\* v1, steps 3 and 4: the regex filter, then the list or the content search
Finish(F, r, files1) ==
  LET filteredFiles ==
        IF r.Filter = NoRegex THEN files1
        ELSE SelectSeq(files1, LAMBDA p : MatchPath(r.Filter, p))
  IN  IF r.Contains = NoRegex
        THEN [i \in 1..Len(filteredFiles) |-> ListMatch(Flat(filteredFiles[i]))]
      ELSE SearchContents(F, filteredFiles)

\* v2: what the loop over the glob matches appends for one match
GlobAppendV2(F, r, e) ==
  IF ContainsSkipDir(e.path) THEN <<>>
  ELSE IF e.path = Cwd THEN <<>>
  ELSE IF r.Contains # NoRegex
    THEN LET m == searchFileContentV2(Flat(e.path), FileAt(F, e.path),
                                      FinalNewline(BaseName(e.path)), r.Contains)
         IN  IF m.Lines = <<>> THEN <<>> ELSE <<m>>
  ELSE <<ListMatch(Flat(e.path))>>

\* v2: whether the walk callback returns before its filter
WalkSkipsV2(r, e) == ContainsSkipDir(e.path)
WalkIsRootV2(r, e) == e.path = Cwd \/ e.path = r.Path

\* v2: what the walk callback appends for one entry
WalkAppendV2(F, r, e) ==
  IF WalkSkipsV2(r, e) \/ WalkIsRootV2(r, e) THEN <<>>
  ELSE IF r.Filter # NoRegex /\ ~(CompileOK(r.Filter) /\ MatchPath(r.Filter, e.path))
    THEN <<>>
  ELSE IF r.Contains # NoRegex
    THEN IF e.isDir THEN <<>>
         ELSE LET m == searchFileContentV2(Flat(e.path), FileAt(F, e.path),
                                           FinalNewline(BaseName(e.path)), r.Contains)
              IN  IF m.Lines = <<>> THEN <<>> ELSE <<m>>
  ELSE IF e.isDir THEN <<ListMatch(Flat(e.path) \o <<"/">>)>>
  ELSE <<ListMatch(Flat(e.path))>>

\* whether filepath.WalkDir reads the directory e after the callback
Descends(r, e) ==
  /\ e.isDir
  /\ IF impl = 1 THEN BaseName(e.path) \notin SkipDirs ELSE ~WalkSkipsV2(r, e)
\* the handler returns
ToolReturn(response) ==
  /\ tresp' = response
  /\ tpc' = "done"

\* the agent calls search_files with a request of R
ToolCallIn(R) ==
  /\ tpc = "idle"
  /\ treq' \in R
  /\ tpc' = "stat"
  /\ UNCHANGED <<tool, impl, fs, pend, cand, tresp, fsops, removed, editVars, searchVars, astVars, restVars>>

ToolCall == ToolCallIn(SearchRequests)

\* os.Stat(dir), os.IsNotExist(err)
ToolStat ==
  /\ tpc = "stat"
  /\ fsops' = fsops \cup {"stat"}
  /\ IF ~Exists(fs, treq.Path)
       THEN ToolReturn(SearchError("directory does not exist"))
     ELSE /\ tpc' = IF impl = 1 THEN "compile" ELSE "collect"
          /\ UNCHANGED tresp
  /\ UNCHANGED <<tool, impl, fs, treq, pend, cand, removed, editVars, searchVars, astVars, restVars>>

\* v1: regexp.Compile of filter and of contains
ToolCompile ==
  /\ tpc = "compile"
  /\ IF treq.Filter # NoRegex /\ ~CompileOK(treq.Filter)
       THEN ToolReturn(SearchError("invalid regex for 'filter'"))
     ELSE IF treq.Contains # NoRegex /\ ~CompileOK(treq.Contains)
       THEN ToolReturn(SearchError("invalid regex for 'contains'"))
     ELSE /\ tpc' = "collect"
          /\ UNCHANGED tresp
  /\ UNCHANGED <<tool, impl, fs, treq, pend, cand, fsops, removed, editVars, searchVars, astVars, restVars>>

\* a pattern is given: doublestar.FilepathGlob(filepath.Join(dir, pattern));
\* below a path that is not a directory it finds nothing, or with
\* WithFailOnIOErrors (v1) may report the error of reading it
ToolGlob ==
  /\ tpc = "collect"
  /\ treq.Pattern # ""
  /\ fsops' = fsops \cup {"glob"}
  /\ \/ /\ \/ treq.Pattern = "["
           \/ (impl = 1 /\ ~IsDir(fs, treq.Path))
        /\ ToolReturn(SearchError(IF impl = 1 THEN "invalid glob pattern or IO error"
                                  ELSE "invalid glob pattern"))
        /\ UNCHANGED pend
     \/ /\ treq.Pattern # "["
        /\ pend' = Glob(fs, treq.Path, treq.Pattern)
        /\ tpc' = IF pend' = <<>> THEN "finish" ELSE "globstat"
        /\ UNCHANGED tresp
  /\ UNCHANGED <<tool, impl, fs, treq, cand, removed, editVars, searchVars, astVars, restVars>>

\* the loop over the glob matches, one match: v1 stats it and keeps the files
\* outside skipped directories; v2 appends to matches
ToolGlobMatch ==
  /\ tpc = "globstat"
  /\ pend # <<>>
  /\ LET e == Head(pend)
     IN  IF impl = 1
           THEN /\ fsops' = fsops \cup {"stat"}
                /\ cand' = IF IsFile(fs, e.path) /\ ~isPathInSkippedDir(e.path)
                             THEN Append(cand, e.path) ELSE cand
         ELSE /\ fsops' = IF treq.Contains # NoRegex /\ GlobAppendV2(fs, treq, e) # <<>>
                            THEN fsops \cup {"read"} ELSE fsops
              /\ cand' = cand \o GlobAppendV2(fs, treq, e)
  /\ pend' = Tail(pend)
  /\ tpc' = IF pend' = <<>> THEN "finish" ELSE "globstat"
  /\ UNCHANGED <<tool, impl, fs, treq, tresp, removed, editVars, searchVars, astVars, restVars>>

\* no pattern: filepath.WalkDir(dir, ...) starts with os.Lstat(root)
ToolWalkStart ==
  /\ tpc = "collect"
  /\ treq.Pattern = ""
  /\ fsops' = fsops \cup {"lstat"}
  /\ IF ~Exists(fs, treq.Path)
       THEN /\ ToolReturn(SearchError(IF impl = 1 THEN "failed during file walk"
                                      ELSE "search failed"))
            /\ UNCHANGED pend
     ELSE /\ pend' = <<Entry(fs, treq.Path)>>
          /\ tpc' = "walk"
          /\ UNCHANGED tresp
  /\ UNCHANGED <<tool, impl, fs, treq, cand, removed, editVars, searchVars, astVars, restVars>>

\* the walk visits one entry: the callback, then the ReadDir of a directory
\* that is not skipped, whose error the callback returns
ToolWalkVisit ==
  /\ tpc = "walk"
  /\ pend # <<>>
  /\ LET e == Head(pend)
         add == IF impl = 1
                  THEN (IF e.isDir THEN <<>> ELSE <<e.path>>)
                ELSE WalkAppendV2(fs, treq, e)
     IN  IF Descends(treq, e) /\ ~IsDir(fs, e.path)
           THEN /\ ToolReturn(SearchError(IF impl = 1 THEN "failed during file walk"
                                          ELSE "search failed"))
                /\ fsops' = fsops \cup {"readdir"}
                /\ UNCHANGED <<pend, cand>>
         ELSE /\ cand' = cand \o add
              /\ pend' = (IF Descends(treq, e) THEN ReadDir(fs, e.path) ELSE <<>>)
                           \o Tail(pend)
              /\ fsops' = fsops \cup (IF Descends(treq, e) THEN {"readdir"} ELSE {})
                                \cup (IF impl = 2 /\ treq.Contains # NoRegex /\ add # <<>>
                                        THEN {"read"} ELSE {})
              /\ tpc' = IF pend' = <<>> THEN "finish" ELSE "walk"
              /\ UNCHANGED tresp
  /\ UNCHANGED <<tool, impl, fs, treq, removed, editVars, searchVars, astVars, restVars>>

\* v1: the filter and the content search, and the return; v2: the return
ToolFinish ==
  /\ tpc = "finish"
  /\ ToolReturn(SearchResponse(IF impl = 1 THEN Finish(fs, treq, cand) ELSE cand))
  /\ fsops' = IF impl = 1 /\ treq.Contains # NoRegex /\ Finish(fs, treq, <<>>) # cand
                THEN fsops \cup {"read"} ELSE fsops
  /\ UNCHANGED <<tool, impl, fs, treq, pend, cand, removed, editVars, searchVars, astVars, restVars>>

\* the listed entries not yet stat'ed, visited or read: the pending glob
\* matches and walk entries, and before a content search the candidates
Awaiting ==
  {pend[i].path : i \in 1..Len(pend)}
    \cup (IF impl = 1 /\ treq.Contains # NoRegex /\ tpc # "done"
            THEN {cand[i] : i \in 1..Len(cand)} ELSE {})

\* another process removes a file or a directory below the root, with all
\* below it; the history keeps its path and the listed entries that went
ToolRemove ==
  /\ tpc \notin {"idle", "done"}
  /\ removed = {}
  /\ \E p \in UNION {{SubSeq(f, 1, n) : n \in 1..Len(f)} : f \in fs} :
       /\ IsPrefix(treq.Path, p) /\ p # treq.Path
       /\ fs' = {f \in fs : ~IsPrefix(p, f)}
       /\ removed' = {[path |-> p, listed |-> {q \in Awaiting : IsPrefix(p, q)}]}
  /\ UNCHANGED <<tool, impl, treq, tpc, pend, cand, tresp, fsops, editVars, searchVars, astVars, restVars>>

\* no call of search_files has started
ToolStart ==
  /\ treq = NoSearchRequest
  /\ tpc = "idle"
  /\ pend = <<>>
  /\ cand = <<>>
  /\ tresp = NoSearchResponse
  /\ fsops = {}
  /\ removed = {}

\* a tree of at most MaxTreeFiles files and either search_files
ToolInit ==
  /\ tool = "search_files"
  /\ impl \in {1, 2}
  /\ fs \in Trees
  /\ ToolStart

\* search_files is not called
ToolIdle ==
  /\ tool = ""
  /\ impl = 1
  /\ fs = {}
  /\ ToolStart

ToolNext ==
  \/ ToolCall
  \/ ToolStat
  \/ ToolCompile
  \/ ToolGlob
  \/ ToolGlobMatch
  \/ ToolWalkStart
  \/ ToolWalkVisit
  \/ ToolFinish
\* sequences over S of length at most n
RECURSIVE SeqsOver(_, _)
SeqsOver(S, n) ==
  IF n = 0 THEN {<<>>}
  ELSE LET T == SeqsOver(S, n - 1)
       IN  T \cup {Append(t, x) : t \in T, x \in S}

\* ----------------------------------- edit_go_file: the structured edits
\* (spec 4.2, strategy B; the file is a sequence of import and declaration
\* lines)

ImportPaths == {"fmt", "os"}
\* the paths in the order of a formatted import block
ImportOrder == <<"fmt", "os">>
Aliases == {"", "f"}
DeclNames == {"x", "y"}
DeclKinds == {"var", "const", "func"}

ImportLine(p, a) == [kind |-> "import", name |-> p, alias |-> a]
DeclLine(k, n) == [kind |-> k, name |-> n, alias |-> ""]

AstLines ==
  {ImportLine(p, a) : p \in ImportPaths, a \in Aliases}
    \cup {DeclLine(k, n) : k \in DeclKinds, n \in DeclNames}

\* the text parses as a Go file: the imports precede the declarations
ParsesAsGo(bytes) ==
  \A i, j \in 1..Len(bytes) :
    i < j /\ bytes[j].kind = "import" => bytes[i].kind = "import"

\* the Go files of at most MaxDecls lines that import no path twice
GoFiles ==
  {b \in SeqsOver(AstLines, MaxDecls) :
     /\ ParsesAsGo(b)
     /\ \A i, j \in 1..Len(b) :
          i < j /\ b[i].kind = "import" /\ b[j].kind = "import"
            => b[i].name # b[j].name}

\* the syntax tree of a file: its import specs and its other declarations
ParseGo(bytes) ==
  [imports |-> SelectSeq(bytes, LAMBDA l : l.kind = "import"),
   decls |-> SelectSeq(bytes, LAMBDA l : l.kind # "import")]

\* the import specs in the order of the formatted import block
RECURSIVE SortImports(_, _)
SortImports(imports, order) ==
  IF order = <<>> THEN <<>>
  ELSE SelectSeq(imports, LAMBDA l : l.name = Head(order))
         \o SortImports(imports, Tail(order))

\* the tree printed and formatted: the import block, then the declarations
PrintGo(ast) == SortImports(ast.imports, ImportOrder) \o ast.decls

\* the import path is present, with any alias
HasImport(ast, p) == \E i \in 1..Len(ast.imports) : ast.imports[i].name = p

\* a collision check that looks at the constants whatever the kind asked for
HasDeclAmongConsts(ast, k, n) ==
  \E i \in 1..Len(ast.decls) : ast.decls[i].kind = "const" /\ ast.decls[i].name = n

\* a top-level declaration of kind k has the name n
HasDecl(ast, k, n) ==
  \E i \in 1..Len(ast.decls) : ast.decls[i].kind = k /\ ast.decls[i].name = n

\* the structured edit requests: valid says that the arguments pass their
\* validation (non-empty, the initializer an expression, the fragment exactly
\* one function declaration)
StructuredEdits ==
  [op : {"AddImport"}, name : ImportPaths, alias : Aliases, isConst : {FALSE},
   valid : BOOLEAN]
    \cup [op : {"RemoveImport"}, name : ImportPaths, alias : {""}, isConst : {FALSE},
          valid : BOOLEAN]
    \cup [op : {"AddDeclaration"}, name : DeclNames, alias : {""}, isConst : BOOLEAN,
          valid : BOOLEAN]
    \cup [op : {"AddFunction"}, name : DeclNames, alias : {""}, isConst : {FALSE},
          valid : BOOLEAN]

NoStructuredEdit ==
  [op |-> "AddImport", name |-> "fmt", alias |-> "", isConst |-> FALSE, valid |-> FALSE]

\* the outcome of an edit before the write: a report and the new content
Outcome(text, bytes) == [text |-> text, bytes |-> bytes]

\* the new tree of an edit that finds nothing in its way
Mutate(ast, e) ==
  IF e.op = "AddImport"
    THEN [ast EXCEPT !.imports = Append(@, ImportLine(e.name, e.alias))]
  ELSE IF e.op = "RemoveImport"
    THEN [ast EXCEPT !.imports = SelectSeq(@, LAMBDA l : l.name # e.name)]
  ELSE IF e.op = "AddDeclaration"
    THEN [ast EXCEPT !.decls =
            Append(@, DeclLine(IF e.isConst THEN "const" ELSE "var", e.name))]
  ELSE [ast EXCEPT !.decls = Append(@, DeclLine("func", e.name))]

\* the edit is a no-op on this tree
IsNoOp(ast, e) ==
  IF e.op = "AddImport" THEN HasImport(ast, e.name)
  ELSE IF e.op = "RemoveImport" THEN ~HasImport(ast, e.name)
  ELSE IF e.op = "AddDeclaration"
    THEN HasDecl(ast, IF e.isConst THEN "const" ELSE "var", e.name)
  ELSE HasDecl(ast, "func", e.name)

\* what a no-op reports
NoOpReport(e) == IF e.op = "RemoveImport" THEN "not found" ELSE "already exists"

\* one structured edit of the file content bytes, up to its write
StructuredEdit(bytes, e) ==
  IF ~e.valid THEN Outcome("invalid request", bytes)
  ELSE IF ~ParsesAsGo(bytes) THEN Outcome("syntax error", bytes)
  ELSE LET ast == ParseGo(bytes)
       IN  IF IsNoOp(ast, e) THEN Outcome(NoOpReport(e), bytes)
           ELSE LET printed == PrintGo(Mutate(ast, e))
                IN  IF ~ParsesAsGo(printed) THEN Outcome("syntax error after modification", bytes)
                    ELSE Outcome("success", printed)

\* the caller chooses the edit that it will apply twice
AstCall ==
  /\ apc = "idle"
  /\ aop' \in StructuredEdits
  /\ apc' = "first"
  /\ UNCHANGED <<afile, afile1, aresp, editVars, searchVars, toolVars, restVars>>

\* one call: the edit and the atomic write, which replaces the file or fails
\* and leaves it as it was
AstApply ==
  /\ apc \in {"first", "second"}
  /\ LET out == StructuredEdit(afile, aop)
     IN  \/ /\ afile' = out.bytes
            /\ aresp' = Append(aresp, out.text)
         \/ /\ out.text = "success"
            /\ afile' = afile
            /\ aresp' = Append(aresp, "failed to write file")
  /\ afile1' = IF apc = "first" THEN afile' ELSE afile1
  /\ apc' = IF apc = "first" THEN "second" ELSE "done"
  /\ UNCHANGED <<aop, editVars, searchVars, toolVars, restVars>>

\* the replacement blocks of ReplaceLineRange: one line or two
NewTexts ==
  {<<ImportLine("fmt", "")>>, <<DeclLine("var", "x")>>,
   <<DeclLine("var", "x"), DeclLine("func", "y")>>}

\* the ReplaceLineRange requests; valid says that newText parses as a fragment
RangeRequests ==
  [op : {"ReplaceLineRange"}, startLine : 0..(MaxDecls + 1), endLine : 0..(MaxDecls + 1),
   newText : NewTexts, valid : BOOLEAN]

\* lines[lo:hi] of a 0-indexed slice
Slice(lines, lo, hi) == SubSeq(lines, lo + 1, hi)

\* a splice that keeps the last line of the range
SpliceKeepingEnd(lines, startLine, endLine, block) ==
  Slice(lines, 0, startLine - 1) \o block \o Slice(lines, endLine - 1, Len(lines))

\* the lines with the range startLine..endLine, converted to 0-indexed,
\* replaced by the block
Splice(lines, startLine, endLine, block) ==
  Slice(lines, 0, startLine - 1) \o block \o Slice(lines, endLine, Len(lines))

\* the range is out of bounds or reversed
BadRange(lines, startLine, endLine) ==
  startLine < 1 \/ endLine > Len(lines) \/ endLine < startLine

\* one ReplaceLineRange of the file content bytes, up to its write: the
\* fragment is validated before the file is touched
ReplaceLineRange(bytes, e) ==
  IF ~e.valid THEN Outcome("invalid fragment", bytes)
  ELSE IF BadRange(bytes, e.startLine, e.endLine) THEN Outcome("range error", bytes)
  ELSE LET replaced == Splice(bytes, e.startLine, e.endLine, e.newText)
       IN  IF ~ParsesAsGo(replaced) THEN Outcome("syntax error", bytes)
           ELSE Outcome("success", replaced)

\* the caller chooses a line range and a replacement
RangeCall ==
  /\ apc = "idle"
  /\ aop' \in RangeRequests
  /\ apc' = "range"
  /\ UNCHANGED <<afile, afile1, aresp, editVars, searchVars, toolVars, restVars>>

\* the call: the replacement and the atomic write, which replaces the file
\* or fails and leaves it as it was
RangeApply ==
  /\ apc = "range"
  /\ LET out == ReplaceLineRange(afile, aop)
     IN  \/ /\ afile' = out.bytes
            /\ aresp' = Append(aresp, out.text)
         \/ /\ out.text = "success"
            /\ afile' = afile
            /\ aresp' = Append(aresp, "failed to write file")
  /\ apc' = "done"
  /\ UNCHANGED <<afile1, aop, editVars, searchVars, toolVars, restVars>>

RangeNext == RangeCall \/ RangeApply
\* no structured edit has been called
AstStart ==
  /\ afile1 = afile
  /\ apc = "idle"
  /\ aop = NoStructuredEdit
  /\ aresp = <<>>

AstInit ==
  /\ afile \in GoFiles
  /\ AstStart

AstIdle ==
  /\ afile = <<>>
  /\ AstStart

AstNext == AstCall \/ AstApply

\* --------------------------------------------- the step-5 agent: its turns

Agents == {"sync", "copy"}
Turns == 1..MaxTurns

\* schema.UserMessage(userInput) of turn t and the concatenated response
UserMsg(t) == [Role |-> "user", turn |-> t]
BotMsg(t) == [Role |-> "assistant", turn |-> t]

\* how a turn's stream can end: Stream returns an error, EOF with no chunk,
\* chunks and then EOF, a receive error
Streams == {"fail", "eof", "chunks", "error"}
Completes(o) == o \in {"eof", "chunks"}

\* what a completed turn adds to the conversation: the user message and, if
\* there were chunks, the response
Saved(t, o) == <<UserMsg(t)>> \o (IF o = "chunks" THEN <<BotMsg(t)>> ELSE <<>>)

NoSaver == [pc |-> "none", local |-> <<>>]

\* Run reads a line and starts the graph with the conversation so far
AgentInput ==
  /\ gpc = "input"
  /\ turn < MaxTurns
  /\ turn' = turn + 1
  /\ History' = Append(History, conversation)
  /\ \E o \in Streams :
       /\ stream' = [stream EXCEPT ![turn + 1] = o]
       /\ gpc' = IF o = "fail" THEN "input" ELSE "display"
       /\ saver' = IF o # "fail" /\ agent = "copy"
                     THEN [saver EXCEPT ![turn + 1] = [pc |-> "recv", local |-> <<>>]]
                     ELSE saver
  /\ UNCHANGED <<agent, conversation, notAgent>>

\* the stream is shown up to its end; agent.go then updates the conversation
\* itself (processStream, updateConversationHistory)
AgentDisplay ==
  /\ gpc = "display"
  /\ gpc' = "input"
  /\ conversation' =
       IF agent = "sync" /\ Completes(stream[turn])
         THEN conversation \o Saved(turn, stream[turn])
         ELSE conversation
  /\ UNCHANGED <<agent, turn, History, stream, saver, notAgent>>

\* main.go's goroutine receives its copy of the stream up to its end
SaverRecv(t) ==
  /\ saver[t].pc = "recv"
  /\ saver' = [saver EXCEPT ![t].pc = IF stream[t] = "error" THEN "exit" ELSE "loadUser"]
  /\ UNCHANGED <<agent, conversation, gpc, turn, History, stream, notAgent>>

\* the goroutine's append reads a.conversation
SaverLoad(t) ==
  /\ saver[t].pc \in {"loadUser", "loadBot"}
  /\ saver' = [saver EXCEPT ![t] =
                 [pc |-> IF @.pc = "loadUser" THEN "storeUser" ELSE "storeBot",
                  local |-> conversation]]
  /\ UNCHANGED <<agent, conversation, gpc, turn, History, stream, notAgent>>

\* the goroutine's append assigns a.conversation
SaverStore(t) ==
  /\ saver[t].pc \in {"storeUser", "storeBot"}
  /\ conversation' =
       Append(saver[t].local, IF saver[t].pc = "storeUser" THEN UserMsg(t) ELSE BotMsg(t))
  /\ saver' = [saver EXCEPT ![t].pc =
                 IF @ = "storeUser" /\ stream[t] = "chunks" THEN "loadBot" ELSE "exit"]
  /\ UNCHANGED <<agent, gpc, turn, History, stream, notAgent>>

\* the agent waits for its first line
AgentStart ==
  /\ conversation = <<>>
  /\ gpc = "input"
  /\ turn = 0
  /\ History = <<>>
  /\ stream = [t \in Turns |-> "none"]
  /\ saver = [t \in Turns |-> NoSaver]

AgentInit ==
  /\ agent \in Agents
  /\ AgentStart

AgentIdle ==
  /\ agent = "sync"
  /\ AgentStart

AgentNext ==
  \/ AgentInput
  \/ AgentDisplay
  \/ \E t \in Turns : SaverRecv(t) \/ SaverLoad(t) \/ SaverStore(t)

\* no call of the tool has started
EditStart ==
  /\ before = disk
  /\ mode0 = mode
  /\ epc = [e \in Editors |-> "idle"]
  /\ req = [e \in Editors |-> NoRequest]
  /\ orig = [e \in Editors |-> <<>>]
  /\ data = [e \in Editors |-> <<>>]
  /\ resp = [e \in Editors |-> NoResponse]
  /\ rpc = "idle"
  /\ seen = <<>>

\* a file of any content and permission bits
EditInit ==
  /\ disk \in Contents
  /\ mode \in Modes
  /\ EditStart

\* no call of edit_go_file runs, on an empty file
EditIdle ==
  /\ disk = <<>>
  /\ mode = WritePerm
  /\ EditStart

\* ----------------------------------------------------- read_file: values

Readers == {"stream", "whole"}

\* the text of a line: empty, short, or longer than bufio.Scanner's buffer
ReadLineKinds == {"", "x", "L"}
LineSize(l) == IF l = "" THEN 0 ELSE IF l = "x" THEN 1 ELSE 65537

\* a file's content: its lines and whether the last one ends with a newline
TextFile(l, nl) == [kind |-> "file", lines |-> l, nl |-> nl]

\* every content of at most MaxReadLines lines, each written one way only: no
\* lines means no newline, and an unterminated last line is not empty
TextFiles ==
  {TextFile(l, nl) : l \in SeqsOver(ReadLineKinds, MaxReadLines), nl \in BOOLEAN}
    \ ({TextFile(<<>>, TRUE)}
         \cup {TextFile(l, FALSE) : l \in {m \in SeqsOver(ReadLineKinds, MaxReadLines) :
                                             m # <<>> /\ m[Len(m)] = ""}})

Missing == [kind |-> "missing", lines |-> <<>>, nl |-> FALSE]
Directory == [kind |-> "dir", lines |-> <<>>, nl |-> FALSE]
Targets == TextFiles \cup {Missing, Directory}

\* fileInfo.Size(): the bytes of the lines and of their newlines
RECURSIVE SumSizes(_)
SumSizes(l) == IF l = <<>> THEN 0 ELSE LineSize(Head(l)) + SumSizes(Tail(l))
FileSize(f) == SumSizes(f.lines) + Len(f.lines) - (IF f.nl \/ f.lines = <<>> THEN 0 ELSE 1)

\* *int: nil is <<>>, a pointer to n is <<n>>
LineArgs == {<<>>} \cup {<<n>> : n \in -1..(MaxReadLines + 1)}

ReadRequests == [Path : {"", "f"}, StartLine : LineArgs, EndLine : LineArgs]
NoReadRequest == [Path |-> "", StartLine |-> <<>>, EndLine |-> <<>>]

ReadFileResponse(c, t, sz, s, e) ==
  [Content |-> c, TotalLines |-> t, FileSize |-> sz, StartLine |-> s, EndLine |-> e,
   Error |-> "", err |-> NilError]
ReadError(text) ==
  [Content |-> <<>>, TotalLines |-> 0, FileSize |-> 0, StartLine |-> 0, EndLine |-> 0,
   Error |-> text, err |-> NilError]
NoReadResponse == ReadError("")

\* fmt.Sprintf("%4d|%s", lineNum, line)
Numbered(n, line) == [num |-> n, text |-> line]

\* ------------------------------------- read_file: the streaming version

\* the scan loop from the line after i: st holds totalLines, linesRead,
\* actualEndLine, the content and whether the scanner stopped on an error
RECURSIVE ScanRead(_, _, _, _, _)
ScanRead(lines, i, startLine, endLine, st) ==
  IF i > Len(lines) THEN st
  ELSE IF lines[i] = "L" THEN [st EXCEPT !.failed = TRUE]
  ELSE LET n == st.totalLines + 1
           wanted == n >= startLine /\ (endLine = -1 \/ n <= endLine)
           st1 == IF wanted
                    THEN [st EXCEPT !.totalLines = n, !.linesRead = @ + 1,
                                    !.actualEndLine = n,
                                    !.content = Append(@, Numbered(n, lines[i]))]
                    ELSE [st EXCEPT !.totalLines = n]
       IN  IF wanted /\ endLine = -1 /\ st1.linesRead >= maxLinesToRead THEN st1
           ELSE ScanRead(lines, i + 1, startLine, endLine, st1)

processFileLines(f, r) ==
  LET start0 == IF r.StartLine # <<>> THEN r.StartLine[1] ELSE 1
      end0 == IF r.EndLine # <<>> THEN r.EndLine[1] ELSE -1
      startLine == IF start0 < 1 THEN 1 ELSE start0
  IN  IF end0 # -1 /\ end0 < startLine THEN ReadError("end_line is before start_line")
      ELSE LET endLine == IF end0 # -1 /\ (end0 - startLine + 1) > maxLinesToRead
                            THEN startLine + maxLinesToRead - 1 ELSE end0
               st == ScanRead(f.lines, 1, startLine, endLine,
                              [totalLines |-> 0, linesRead |-> 0, actualEndLine |-> 0,
                               content |-> <<>>, failed |-> FALSE])
           IN  IF st.failed THEN ReadError("error while reading file")
               ELSE IF st.totalLines > 0 /\ startLine > st.totalLines
                 THEN ReadError("start_line is beyond file end")
               ELSE ReadFileResponse(st.content, st.totalLines, FileSize(f),
                                     startLine, st.actualEndLine)

ReadFileStream(t, r) ==
  IF r.Path = "" THEN ReadError("path cannot be empty")
  ELSE IF t.kind = "missing" THEN ReadError("file not found")
  ELSE IF t.kind = "dir" THEN ReadError("path is a directory, not a file")
  ELSE processFileLines(t, r)

\* ---------------------------------------- read_file: the whole-file version

\* strings.Split(string(content), "\n")
SplitContent(f) == IF f.nl \/ f.lines = <<>> THEN Append(f.lines, "") ELSE f.lines

ReadFileWhole(t, r) ==
  IF r.Path = "" THEN ReadError("path cannot be empty")
  ELSE IF t.kind = "missing" THEN ReadError("file not found")
  ELSE IF t.kind = "dir" THEN ReadError("failed to read file")
  ELSE LET lines == SplitContent(t)
           totalLines == Len(lines)
           startLine == IF r.StartLine # <<>> /\ r.StartLine[1] >= 1 THEN r.StartLine[1] ELSE 1
           endLine == IF r.EndLine # <<>> THEN Min(r.EndLine[1], totalLines) ELSE totalLines
       IN  IF r.StartLine # <<>> /\ startLine > totalLines
             THEN ReadError("start_line is beyond file length")
           ELSE IF r.EndLine # <<>> /\ endLine < startLine
             THEN ReadError("end_line is before start_line")
           ELSE ReadFileResponse(
                  [i \in 1..(endLine - startLine + 1) |->
                     Numbered(startLine + i - 1, lines[startLine + i - 1])],
                  totalLines, FileSize(t), startLine, endLine)

\* ---------------------------------------------------- read_file: the call

ReadCall ==
  /\ rdpc = "idle"
  /\ rreq' \in ReadRequests
  /\ rdpc' = "called"
  /\ UNCHANGED <<reader, target, rresp, notRead>>

ReadReturn ==
  /\ rdpc = "called"
  /\ rresp' = IF reader = "stream" THEN ReadFileStream(target, rreq)
              ELSE ReadFileWhole(target, rreq)
  /\ rdpc' = "done"
  /\ UNCHANGED <<reader, target, rreq, notRead>>

ReadStart ==
  /\ rreq = NoReadRequest
  /\ rdpc = "idle"
  /\ rresp = NoReadResponse

ReadInit ==
  /\ reader \in Readers
  /\ target \in Targets
  /\ ReadStart

ReadIdle ==
  /\ reader = "stream"
  /\ target = Missing
  /\ ReadStart

ReadNext == ReadCall \/ ReadReturn

\* --------------------------------------------------------- the calculator

\* numbers are fractions <<n, d>> in lowest terms with d > 0; a division by
\* zero would give d = 0
Abs(n) == IF n < 0 THEN -n ELSE n

RECURSIVE Gcd(_, _)
Gcd(a, b) == IF b = 0 THEN a ELSE Gcd(b, a % b)

Frac(n, d) ==
  IF d = 0 THEN <<n, 0>>
  ELSE LET g == Gcd(Abs(n), Abs(d))
           sgn == IF d < 0 THEN -1 ELSE 1
       IN  <<sgn * (n \div g), sgn * (d \div g)>>

Numbers == {Frac(n, d) : n \in -MaxNum..MaxNum, d \in 1..2}

Operations == {"add", "subtract", "multiply", "divide", "modulo", ""}

CalculateRequests == [Operation : Operations, A : Numbers, B : Numbers]
NoCalculateRequest == [Operation |-> "", A |-> Frac(0, 1), B |-> Frac(0, 1)]

\* what the handler returns: (*CalculateResponse, error)
Calculated(result) == [resp |-> <<[Result |-> result]>>, err |-> NilError]
CalculateError(text) == [resp |-> <<>>, err |-> text]
NoCalculateResponse == [resp |-> <<>>, err |-> NilError]

\* the handler without its test for a zero divisor
CalculateUnguarded(r) ==
  LET a == r.A
      b == r.B
  IN  IF r.Operation = "add" THEN Calculated(Frac(a[1] * b[2] + b[1] * a[2], a[2] * b[2]))
      ELSE IF r.Operation = "subtract"
        THEN Calculated(Frac(a[1] * b[2] - b[1] * a[2], a[2] * b[2]))
      ELSE IF r.Operation = "multiply" THEN Calculated(Frac(a[1] * b[1], a[2] * b[2]))
      ELSE IF r.Operation = "divide" THEN Calculated(Frac(a[1] * b[2], a[2] * b[1]))
      ELSE CalculateError("unknown operation")

\* the handler: the switch on req.Operation
Calculate(r) ==
  LET a == r.A
      b == r.B
  IN  IF r.Operation = "add" THEN Calculated(Frac(a[1] * b[2] + b[1] * a[2], a[2] * b[2]))
      ELSE IF r.Operation = "subtract"
        THEN Calculated(Frac(a[1] * b[2] - b[1] * a[2], a[2] * b[2]))
      ELSE IF r.Operation = "multiply" THEN Calculated(Frac(a[1] * b[1], a[2] * b[2]))
      ELSE IF r.Operation = "divide"
        THEN IF b[1] = 0 THEN CalculateError("cannot divide by zero")
             ELSE Calculated(Frac(a[1] * b[2], a[2] * b[1]))
      ELSE CalculateError("unknown operation")

CalcCall ==
  /\ cpc = "idle"
  /\ creq' \in CalculateRequests
  /\ cpc' = "called"
  /\ UNCHANGED <<cresp, notCalc>>

CalcReturn ==
  /\ cpc = "called"
  /\ cresp' = Calculate(creq)
  /\ cpc' = "done"
  /\ UNCHANGED <<creq, notCalc>>

CalcIdle ==
  /\ creq = NoCalculateRequest
  /\ cpc = "idle"
  /\ cresp = NoCalculateResponse

CalcNext == CalcCall \/ CalcReturn
\* ------------------------------- the chat loops of steps 2 and 4: spinner

\* a receive error closes done whatever came before
CloseOnErrAlways(first) == TRUE

\* if firstChunk { close(done) } on a receive error
CloseOnErr(first) == first

\* close(done) of turn t: a second close panics
CloseDone(t) ==
  IF doneCh[t] = "closed"
    THEN /\ lpc' = "panic"
         /\ closes' = [closes EXCEPT ![t] = @ + 1]
         /\ UNCHANGED doneCh
    ELSE /\ doneCh' = [doneCh EXCEPT ![t] = "closed"]
         /\ closes' = [closes EXCEPT ![t] = @ + 1]

\* a line was read; a failure before the stream exists (retriever, template,
\* Stream) continues with the next line, otherwise done is made and the
\* spinner started
LoopInput ==
  /\ lpc = "input"
  /\ lturn < MaxTurns
  /\ lturn' = lturn + 1
  /\ \/ /\ ended' = [ended EXCEPT ![lturn + 1] = "fail"]
        /\ UNCHANGED <<lpc, firstChunk, chunks, doneCh, spin>>
     \/ /\ doneCh' = [doneCh EXCEPT ![lturn + 1] = "open"]
        /\ spin' = [spin EXCEPT ![lturn + 1] = "select"]
        /\ firstChunk' = TRUE
        /\ chunks' = 0
        /\ lpc' = "recv"
        /\ UNCHANGED ended
  /\ UNCHANGED <<step, closes, notLoop>>

\* Recv returns a chunk
LoopRecvChunk ==
  /\ lpc = "recv"
  /\ chunks < MaxChunks
  /\ chunks' = chunks + 1
  /\ firstChunk' = FALSE
  /\ IF firstChunk
       THEN /\ CloseDone(lturn)
            /\ IF doneCh[lturn] = "closed" THEN TRUE ELSE UNCHANGED lpc
       ELSE UNCHANGED <<lpc, doneCh, closes>>
  /\ UNCHANGED <<step, lturn, ended, spin, notLoop>>

\* Recv returns io.EOF or another error: the loop ends
LoopRecvEnd ==
  /\ lpc = "recv"
  /\ \E e \in {"eof", "error"} : ended' = [ended EXCEPT ![lturn] = e]
  /\ IF CloseOnErr(firstChunk)
       THEN /\ CloseDone(lturn)
            /\ IF doneCh[lturn] = "closed" THEN TRUE ELSE lpc' = "input"
       ELSE /\ lpc' = "input"
            /\ UNCHANGED <<doneCh, closes>>
  /\ UNCHANGED <<step, lturn, firstChunk, chunks, spin, notLoop>>

\* showSpinner's select: the done case when done is closed, else default
SpinnerSelect(t) ==
  /\ spin[t] = "select"
  /\ spin' = [spin EXCEPT ![t] = IF doneCh[t] = "closed" THEN "exited" ELSE "spin"]
  /\ UNCHANGED <<step, lpc, lturn, firstChunk, chunks, doneCh, closes, ended, notLoop>>

\* the default case: a frame, the sleep, the backspace
SpinnerFrame(t) ==
  /\ spin[t] = "spin"
  /\ spin' = [spin EXCEPT ![t] = "select"]
  /\ UNCHANGED <<step, lpc, lturn, firstChunk, chunks, doneCh, closes, ended, notLoop>>

LoopStart ==
  /\ lpc = "input"
  /\ lturn = 0
  /\ firstChunk = TRUE
  /\ chunks = 0
  /\ doneCh = [t \in Turns |-> "none"]
  /\ closes = [t \in Turns |-> 0]
  /\ ended = [t \in Turns |-> "none"]
  /\ spin = [t \in Turns |-> "none"]

LoopInit ==
  /\ step \in {2, 4}
  /\ LoopStart

LoopIdle ==
  /\ step = 2
  /\ LoopStart

\* the steps of Run's goroutine and of the spinner of turn t
LoopMain == LoopInput \/ LoopRecvChunk \/ LoopRecvEnd
Spinner(t) == SpinnerSelect(t) \/ SpinnerFrame(t)

LoopNext == LoopMain \/ \E t \in Turns : Spinner(t)
\* ------------------------------------ the step-5 terminal UI: its spinner

\* len(frames): the frames are a string of ten runes of three bytes each, and
\* the loop indexes its bytes
FrameBytes == 30

\* OnStartFn of a tool: the name is kept and Start is launched, not awaited
OnStartFn ==
  /\ upc = "idle"
  /\ tools < MaxTools
  /\ tools' = tools + 1
  /\ activeToolName' = tools + 1
  /\ starting' = starting \cup {tools + 1}
  /\ upc' = "running"
  /\ UNCHANGED <<isActive, live, frame, notUi>>

\* Spinner.Start in its own goroutine: nothing to do when active, else the
\* flag is set and the select loop launched. s.mu is held by a Stop that waits
\* on its send.
SpinnerStart(k) ==
  /\ k \in starting
  /\ upc # "stopping"
  /\ starting' = starting \ {k}
  /\ IF isActive
       THEN UNCHANGED <<isActive, live, frame>>
       ELSE /\ isActive' = TRUE
            /\ live' = live + 1
            /\ frame' = 0
  /\ UNCHANGED <<upc, tools, activeToolName, notUi>>

\* OnEndFn or OnErrorFn of the running tool: Stop returns at once when the
\* spinner is not active, else it sends on stopChan under both mutexes
OnEndFn ==
  /\ upc = "running"
  /\ IF isActive
       THEN /\ upc' = "stopping"
            /\ UNCHANGED activeToolName
       ELSE /\ upc' = "idle"
            /\ activeToolName' = 0
  /\ UNCHANGED <<tools, isActive, starting, live, frame, notUi>>

\* the select loop receives from stopChan and returns; Stop clears the flag and
\* the callback returns
SpinnerStopped ==
  /\ upc = "stopping"
  /\ live > 0
  /\ live' = live - 1
  /\ isActive' = FALSE
  /\ activeToolName' = 0
  /\ upc' = "idle"
  /\ UNCHANGED <<tools, starting, frame, notUi>>

\* the select loop receives from the ticker and prints a frame
SpinnerTick ==
  /\ live > 0
  /\ frame' = (frame + 1) % FrameBytes
  /\ UNCHANGED <<upc, tools, activeToolName, isActive, starting, live, notUi>>

UiIdle ==
  /\ upc = "idle"
  /\ tools = 0
  /\ activeToolName = 0
  /\ isActive = FALSE
  /\ starting = {}
  /\ live = 0
  /\ frame = 0

UiNext ==
  \/ OnStartFn
  \/ OnEndFn
  \/ SpinnerStopped
  \/ SpinnerTick
  \/ \E k \in 1..MaxTools : SpinnerStart(k)
\* no file tool runs
FileIdle == EditIdle /\ SearchIdle /\ ToolIdle /\ AstIdle

RestIdle == AgentIdle /\ ReadIdle /\ CalcIdle /\ LoopIdle /\ UiIdle

Init == EditInit /\ SearchIdle /\ ToolIdle /\ AstIdle /\ RestIdle

\* one call of the tool, nothing else touching the file
Next ==
  \/ EditCall(1)
  \/ EditRead(1)
  \/ EditOpen(1)
  \/ EditWrite(1)
  \/ EditWriteFail(1)

Spec == Init /\ [][Next]_vars

\* two concurrent calls on the file and a concurrent reader; the requests name
\* the file and are those with an old_string of one character
ConcRequests ==
  {r \in Requests : r.Path = ExistingPath /\ Len(r.OldString) = 1}

ConcInit ==
  /\ disk \in Contents
  /\ mode = WritePerm
  /\ EditStart
  /\ SearchIdle
  /\ ToolIdle
  /\ AstIdle /\ RestIdle

ConcCall(e) == EditCallIn(e, ConcRequests)

ConcNext ==
  \/ \E e \in Editors :
       \/ ConcCall(e)
       \/ EditRead(e)
       \/ EditOpen(e)
       \/ EditWrite(e)
       \/ EditWriteFail(e)
  \/ ReaderRead

ConcSpec == ConcInit /\ [][ConcNext]_vars

\* one content search over a fixed tree
SearchSpecInit == SearchInit /\ EditIdle /\ ToolIdle /\ AstIdle /\ RestIdle

SearchSpec == SearchSpecInit /\ [][SearchNext]_vars

\* files that differ in what matters to the pool: one match to send, or none
TermFiles == {File(TRUE, FALSE, <<"m">>), File(TRUE, FALSE, <<"n">>)}

TermInit ==
  /\ \E n \in 0..MaxFiles :
       /\ tree \in [1..n -> TermFiles]
       /\ files = [i \in 1..n |-> i]
  /\ numWorkers \in 1..MaxWorkers
  /\ SearchStart
  /\ EditIdle /\ ToolIdle /\ AstIdle /\ RestIdle

\* the search under fair scheduling: a goroutine that can run does run
SearchFairSpec == TermInit /\ [][SearchNext]_vars /\ WF_vars(SearchNext)

\* every file of at most MaxLines lines
AllFiles ==
  {File(r, b, l) : r \in BOOLEAN, b \in BOOLEAN, l \in SeqsOver(LineKinds, MaxLines)}

\* one candidate file of any content, searched by one worker
ContentInit ==
  /\ tree \in [1..1 -> AllFiles]
  /\ files = <<1>>
  /\ numWorkers = 1
  /\ SearchStart
  /\ EditIdle
  /\ ToolIdle
  /\ AstIdle /\ RestIdle

\* the content search of a single file
ContentSpec == ContentInit /\ [][SearchNext]_vars

\* one call of search_files, of either implementation, on a fixed tree
ToolSpecInit == ToolInit /\ EditIdle /\ SearchIdle /\ AstIdle /\ RestIdle

ToolSpec == ToolSpecInit /\ [][ToolNext]_vars

\* the requests of the parallel tool with well-formed arguments on a directory
RaceRequests ==
  {r \in SearchRequests :
     /\ r.Path \in {Cwd, <<NameR>>}
     /\ r.Pattern # "["
     /\ r.Filter # BadRegex /\ r.Contains # BadRegex}

\* one call of the parallel search_files while another process removes a file
\* or a directory
RaceInit ==
  /\ tool = "search_files"
  /\ impl = 1
  /\ fs \in Trees
  /\ ToolStart
  /\ EditIdle
  /\ SearchIdle
  /\ AstIdle /\ RestIdle

RaceNext ==
  \/ ToolCallIn(RaceRequests)
  \/ ToolStat
  \/ ToolCompile
  \/ ToolGlob
  \/ ToolGlobMatch
  \/ ToolWalkStart
  \/ ToolWalkVisit
  \/ ToolFinish
  \/ ToolRemove

RaceSpec == RaceInit /\ [][RaceNext]_vars

\* one call by the agent of either tool: edit_go_file on a file of any
\* content, or search_files (either implementation) on a tree
CallInit ==
  \/ /\ tool = "edit_go_file"
     /\ impl = 1
     /\ fs = {}
     /\ ToolStart
     /\ EditInit
     /\ SearchIdle
     /\ AstIdle /\ RestIdle
  \/ /\ ToolInit
     /\ EditIdle
     /\ SearchIdle
     /\ AstIdle /\ RestIdle

CallEdit == tool = "edit_go_file" /\ Next
CallSearch == tool = "search_files" /\ ToolNext

CallNext == CallEdit \/ CallSearch

CallSpec == CallInit /\ [][CallNext]_vars

\* the same structured edit applied twice to a Go file
AstSpecInit == AstInit /\ EditIdle /\ SearchIdle /\ ToolIdle /\ RestIdle

AstSpec == AstSpecInit /\ [][AstNext]_vars

\* one ReplaceLineRange of a Go file
RangeSpec == AstSpecInit /\ [][RangeNext]_vars

\* a conversation with one of the step-5 agents
AgentSpecInit == AgentInit /\ FileIdle /\ ReadIdle /\ CalcIdle /\ LoopIdle /\ UiIdle

AgentSpec == AgentSpecInit /\ [][AgentNext]_vars

\* one call of read_file
ReadSpecInit == ReadInit /\ FileIdle /\ AgentIdle /\ CalcIdle /\ LoopIdle /\ UiIdle

ReadSpec == ReadSpecInit /\ [][ReadNext]_vars

\* one call of the calculator
CalcSpecInit == CalcIdle /\ FileIdle /\ AgentIdle /\ ReadIdle /\ LoopIdle /\ UiIdle

CalcSpec == CalcSpecInit /\ [][CalcNext]_vars

\* the chat loop of step 2 or 4 and its spinners, every goroutine scheduled
\* fairly and every Recv returning
LoopSpecInit == LoopInit /\ FileIdle /\ AgentIdle /\ ReadIdle /\ CalcIdle /\ UiIdle

LoopSpec ==
  /\ LoopSpecInit
  /\ [][LoopNext]_vars
  /\ WF_vars(LoopRecvChunk \/ LoopRecvEnd)
  /\ \A t \in Turns : WF_vars(Spinner(t))

\* the callbacks of one run of the step-5 graph and the spinner's goroutines,
\* each scheduled fairly
UiSpecInit == UiIdle /\ FileIdle /\ AgentIdle /\ ReadIdle /\ CalcIdle /\ LoopIdle

UiSpec ==
  /\ UiSpecInit
  /\ [][UiNext]_vars
  /\ WF_vars(SpinnerStopped)
  /\ \A k \in 1..MaxTools : WF_vars(SpinnerStart(k))

\* ------------------------------------------------ edit_go_file: the claims

\* the positions of s at which sub occurs, overlapping ones included
Occurrences(s, sub) ==
  Cardinality({i \in 1..Len(s) : HasPrefixAt(s, sub, i)})

\* the call of e got as far as reading the file
HasRead(e) ==
  \/ epc[e] \in {"open", "write"}
  \/ /\ epc[e] = "done"
     /\ resp[e].Error.text \notin
          {"path cannot be empty", "old_string cannot be empty",
           "file not found", "failed to read file"}

\* the content the call of e obtained by its replacement
Modified(e) == Replace(orig[e], req[e].OldString, req[e].NewString)

Succeeded(e) == epc[e] = "done" /\ resp[e].Message # NoText
Failed(e) == epc[e] = "done" /\ resp[e].Error # NoText

\* the file is as it was before the call
FileUntouched == disk = before /\ mode = mode0

\* C1: a call whose replaced content does not parse returns an error and never
\* writes the file; the file is opened for writing or changed only by a call
\* whose old_string was found, was unique for the code's count and whose
\* replaced content parsed; a call rejected by a check leaves the file as it was.
C1_WriteOnlyAfterValidation ==
  \A e \in Editors :
    /\ (HasRead(e) /\ ~ParseOK(Modified(e))) =>
         /\ epc[e] = "done"
         /\ resp[e].Error # NoText
         /\ resp[e].Message = NoText
         /\ FileUntouched
    /\ (epc[e] = "write" \/ (epc[e] = "done" /\ ~FileUntouched)) =>
         /\ HasRead(e)
         /\ Occurrences(orig[e], req[e].OldString) >= 1
         /\ Count(orig[e], req[e].OldString) = 1
         /\ ParseOK(Modified(e))
    /\ (Failed(e) /\ resp[e].Error.text # "failed to write file") => FileUntouched

\* a call on a file that parsed was rejected for the syntax of its result
C1_Witness ==
  /\ epc[1] = "done"
  /\ resp[1].Error.text = "syntax error after modification"
  /\ ParseOK(before)
  /\ ~ParseOK(Modified(1))
  /\ FileUntouched

\* C2: when old_string occurs at N >= 2 places of the file, the call fails with
\* "appears N times", replaces nothing and leaves the file unchanged.
C2_AmbiguousRejected ==
  \A e \in Editors :
    (HasRead(e) /\ Occurrences(orig[e], req[e].OldString) >= 2) =>
      /\ epc[e] = "done"
      /\ resp[e].Error = Text("old_string appears %d times in file",
                              <<Occurrences(orig[e], req[e].OldString)>>)
      /\ resp[e].Message = NoText
      /\ FileUntouched

\* the divergence of C2 at its plainest: a call whose old_string occurred at
\* two overlapping places of a file that parsed has replaced the first of them
\* and reported success
C2_OverlapReplaced ==
  /\ Succeeded(1)
  /\ ParseOK(before)
  /\ Occurrences(before, req[1].OldString) >= 2
  /\ disk # before

\* C3: when old_string does not occur in the (readable) file, the call fails
\* with the not-found error and the file is unchanged.
C3_NotFoundRejected ==
  \A e \in Editors :
    /\ epc[e] \in {"open", "write"} => Occurrences(orig[e], req[e].OldString) >= 1
    /\ ( /\ epc[e] = "done"
         /\ req[e].Path = ExistingPath
         /\ req[e].OldString # <<>>
         /\ CanRead(mode0)
         /\ Occurrences(before, req[e].OldString) = 0 ) =>
         /\ resp[e].Error = Text("old_string not found in file", <<>>)
         /\ resp[e].Message = NoText
         /\ FileUntouched

\* a call whose old_string is absent from a non-empty file has returned
C3_Witness ==
  /\ epc[1] = "done"
  /\ before # <<>>
  /\ req[1].OldString # <<>>
  /\ Occurrences(before, req[1].OldString) = 0
  /\ resp[1].Error.text = "old_string not found in file"
  /\ FileUntouched

\* C4: after a call whose write step failed, the content of the file is what it
\* was before the call.
C4_WriteFailureAtomic ==
  \A e \in Editors :
    (epc[e] = "done" /\ resp[e].Error.text = "failed to write file") =>
      disk = before

\* C5: a reader concurrent with one successful edit saw the whole content of
\* before the edit or the whole content the edit wrote.
C5_ReaderSeesOldOrNew ==
  (rpc = "done" /\ Succeeded(1) /\ epc[2] = "idle") =>
    seen \in {before, data[1]}

\* C6: when two concurrent calls both succeeded, the file holds the complete
\* content written by one of them.
C6_LastWriterWins ==
  (Succeeded(1) /\ Succeeded(2)) => disk \in {data[1], data[2]}

\* C7: a completed call has exactly one of Message and Error, and the file is
\* modified only by a call that returned Message.
C7_OneOfMessageError ==
  \A e \in Editors :
    epc[e] = "done" =>
      /\ (resp[e].Message # NoText) # (resp[e].Error # NoText)
      /\ (disk # before) => resp[e].Message # NoText

\* C8: after a successful edit the permission bits of the file are those of
\* before the edit.
C8_PermissionPreserved ==
  \A e \in Editors : Succeeded(e) => mode = mode0

\* a successful edit of a file whose bits were not 0644, its content changed
C8_Witness ==
  /\ Succeeded(1)
  /\ mode0 # WritePerm
  /\ disk # before
  /\ mode = mode0

\* ------------------------------------------------ search_files: the claims

\* the paths of a list of matches
PathsOf(ms) == {ms[i].File : i \in 1..Len(ms)}

\* the candidate paths
Candidates == {files[i] : i \in 1..Len(files)}

\* C9: searchContentsConcurrently has returned only when every worker it
\* spawned has exited and the job queue is drained.
C9_JoinBarrier ==
  mpc = "returned" =>
    /\ spawned = numWorkers
    /\ \A w \in 1..numWorkers : wpc[w] = "exited"
    /\ jobs = <<>>
    /\ next = Len(files) + 1
    /\ wg = 0

\* a search with two workers and two files has returned a match
C9_Witness ==
  /\ mpc = "returned"
  /\ numWorkers >= 2
  /\ Len(files) >= 2
  /\ Len(matches) >= 1
  /\ \A w \in 1..numWorkers : wpc[w] = "exited"

HasScannedMatch(f) ==
  \E i \in 1..Len(f.lines) :
    /\ Matches(f.lines[i])
    /\ \A j \in 1..(i - 1) : f.lines[j] # "L"

Ascending(ls) == \A i, j \in 1..Len(ls) : i < j => ls[i] < ls[j]

\* C11: for every FileMatch, Lines is the strictly ascending sequence of the
\* 1-indexed numbers of all the lines of the file that match: every listed
\* line matches and every matching line is listed.
C11_LinesExactlyTheMatches ==
  mpc = "returned" =>
    \A k \in 1..Len(matches) :
      LET m == matches[k]
          l == tree[m.File].lines
      IN  /\ Ascending(m.Lines)
          /\ \A i \in 1..Len(m.Lines) :
               m.Lines[i] \in 1..Len(l) /\ Matches(l[m.Lines[i]])
          /\ \A n \in 1..Len(l) :
               Matches(l[n]) => \E i \in 1..Len(m.Lines) : m.Lines[i] = n

\* a FileMatch lists a matching line while a later matching line, behind a
\* line longer than the scanner's buffer, is missing
C11_LaterMatchDropped ==
  /\ mpc = "returned"
  /\ \E k \in 1..Len(matches) :
       LET l == tree[matches[k].File].lines
       IN  /\ matches[k].Lines = <<1>>
           /\ Len(l) = 3 /\ l[2] = "L" /\ Matches(l[3])
\* no two FileMatch records name the same file, and every one names a candidate
OneMatchPerCandidate ==
  /\ \A i, j \in 1..Len(matches) : i # j => matches[i].File # matches[j].File
  /\ PathsOf(matches) \subseteq Candidates

SnippetCovers(s, l, from, to, n) ==
  /\ Len(s) = to - from + 1
  /\ \A k \in 1..Len(s) :
       /\ s[k].num = from + k - 1
       /\ s[k].num \in 1..Len(l)
       /\ s[k].text = l[s[k].num]
       /\ s[k].mark = (s[k].num = n)

\* C13, for the parallel search_files: for every match at line n of a file of
\* L lines the snippet covers exactly the lines max(1, n-2) .. min(L, n+2), in
\* order, only line n carries the marker, and the i-th snippet is of Lines[i].
C13_SnippetWindowParallel ==
  mpc = "returned" =>
    \A k \in 1..Len(matches) :
      LET m == matches[k]
          l == tree[m.File].lines
      IN  /\ Len(m.Snippets) = Len(m.Lines)
          /\ \A i \in 1..Len(m.Lines) :
               LET n == m.Lines[i]
               IN  SnippetCovers(m.Snippets[i], l, Max(1, n - 2),
                                 Min(Len(l), n + 2), n)

\* a snippet that ends before line n+2 of the file, at the line in front of
\* one longer than the scanner's buffer
C13_SnippetCutShort ==
  /\ mpc = "returned"
  /\ \E k \in 1..Len(matches) :
       LET m == matches[k]
           l == tree[m.File].lines
       IN  /\ m.Lines = <<1>> /\ Len(m.Snippets[1]) = 2
           /\ Len(l) = 3 /\ l[3] = "L"
\* ------------------------------------ search_files: the handler's claims

\* the call has returned
Returned == tpc = "done"

\* the File values of the matches returned
FilesOf(ms) == {ms[k].File : k \in 1..Len(ms)}

\* the lines of the file that a FileMatch names
LinesOfMatch(m) ==
  LET p == CHOOSE q \in Universe : Flat(q) = m.File
  IN  ContentByName(BaseName(p)).lines

\* C13: for every match at line n of a file of L lines the snippet covers
\* exactly the lines max(1, n-2) .. min(L, n+2), in order (at most 5 lines),
\* only line n carries the marker, and there is exactly one snippet per matched
\* line, the i-th snippet belonging to Lines[i].
C13_SnippetWindow ==
  Returned =>
    \A k \in 1..Len(tresp.Matches) :
      LET m == tresp.Matches[k]
      IN  /\ Len(m.Snippets) = Len(m.Lines)
          /\ \A i \in 1..Len(m.Lines) :
               LET n == m.Lines[i]
                   l == LinesOfMatch(m)
               IN  SnippetCovers(m.Snippets[i], l, Max(1, n - 2),
                                 Min(Len(l), n + 2), n)

\* v2 returned a snippet with a line numbered L+1, the empty string that
\* strings.Split yields after the final newline of a file of L lines
C13_LineAfterEndShown ==
  /\ Returned
  /\ impl = 2
  /\ \E k \in 1..Len(tresp.Matches) :
       LET m == tresp.Matches[k]
       IN  /\ m.Lines # <<>>
           /\ m.TotalLines = Len(LinesOfMatch(m)) + 1
           /\ \E j \in 1..Len(m.Snippets[1]) :
                m.Snippets[1][j].num = Len(LinesOfMatch(m)) + 1
\* the request has a regular expression that does not compile
InvalidRegex == treq.Filter = BadRegex \/ treq.Contains = BadRegex

InvalidPatternErrors == {"invalid regex for 'filter'", "invalid regex for 'contains'"}

\* C14: a search whose filter or contains regex does not compile returns an
\* invalid-pattern error, and returns it before any file-system operation
\* (no stat, glob, walk or read); it never returns an empty success instead.
C14_InvalidPatternFailsFast ==
  Returned /\ InvalidRegex =>
    /\ tresp.Error \in InvalidPatternErrors
    /\ tresp.Matches = <<>>
    /\ fsops = {}

\* v1 reports the invalid pattern after it has stat'ed the directory
C14_StatBeforeCompile ==
  /\ Returned /\ InvalidRegex
  /\ impl = 1
  /\ tresp.Error \in InvalidPatternErrors
  /\ fsops = {"stat"}

\* v2 walked a tree that has files and returned a success without matches
C14_SilentlyEmpty ==
  /\ Returned /\ InvalidRegex
  /\ impl = 2
  /\ tresp.Error = "" /\ tresp.Matches = <<>>
  /\ "readdir" \in fsops
  /\ \E f \in fs : IsPrefix(treq.Path, f) /\ ~ContainsSkipDir(f)
\* the glob pattern and the regular expressions of the request are well-formed
WellFormed == treq.Pattern # "[" /\ ~InvalidRegex

\* C15: a search whose path does not exist, or exists but is not a directory,
\* fails with the not-found error and returns no matches (whatever the other
\* arguments; checked for well-formed ones, which have no other error).
C15_RootMustBeDirectory ==
  Returned /\ WellFormed /\ ~IsDir(fs, treq.Path) =>
    /\ tresp.Error = "directory does not exist"
    /\ tresp.Matches = <<>>

\* the search of a regular file succeeds and returns that file as its match
C15_FileRootListed ==
  /\ Returned
  /\ IsFile(fs, treq.Path)
  /\ tresp.Error = ""
  /\ FilesOf(tresp.Matches) = {Flat(treq.Path)}

\* the directories on the way from the root dir down to the file f below it,
\* the root included (the working directory has no name of its own)
DirsDownTo(dir, f) == {f[i] : i \in {j \in Len(dir)..(Len(f) - 1) : j >= 1}}

\* C16: in walk mode (no pattern) a file under the root is a candidate if and
\* only if no directory on the path from the root down to it has a base name
\* in the skip-list; names that merely contain a skip-list name are not
\* excluded.  Without filter and contains the candidates are the matches.
C16_WalkSkipsExactNames ==
  /\ Returned /\ tresp.Error = ""
  /\ treq.Pattern = "" /\ treq.Filter = NoRegex /\ treq.Contains = NoRegex
  /\ IsDir(fs, treq.Path)
  => \A f \in fs :
       IsPrefix(treq.Path, f) =>
         (Flat(f) \in FilesOf(tresp.Matches)
            <=> DirsDownTo(treq.Path, f) \cap SkipDirs = {})

\* v2 left out a file below a directory whose name only contains "vendor"
C16_SubstringExcluded ==
  /\ Returned /\ tresp.Error = ""
  /\ treq.Pattern = "" /\ treq.Filter = NoRegex /\ treq.Contains = NoRegex
  /\ treq.Path = <<NameR>>
  /\ <<NameR, NameVendors, NameAGo>> \in fs
  /\ Flat(<<NameR, NameVendors, NameAGo>>) \notin FilesOf(tresp.Matches)
\* the files that the implementation in use lists for the pattern of the
\* request: the glob matches it keeps when a pattern is given, else the files
\* its walk reaches
Listed ==
  IF treq.Pattern # ""
    THEN LET g == Glob(fs, treq.Path, treq.Pattern)
         IN  {g[i].path : i \in {j \in 1..Len(g) :
                /\ IsFile(fs, g[j].path)
                /\ IF impl = 1 THEN ~isPathInSkippedDir(g[j].path)
                   ELSE ~ContainsSkipDir(g[j].path)}}
  ELSE {f \in fs :
          /\ IsPrefix(treq.Path, f)
          /\ IF impl = 1 THEN DirsDownTo(treq.Path, f) \cap SkipDirs = {}
             ELSE ~ContainsSkipDir(f) /\ f # treq.Path}

\* the file has a line that matches the contains regex
HasMatchingLine(f) ==
  \E i \in 1..Len(FileAt(fs, f).lines) : Matches(FileAt(fs, f).lines[i])

\* C17: pattern, filter and contains combine independently: for each of the 8
\* combinations the result is the set of candidates (from the glob when a
\* pattern is given, else from the walk) restricted to the paths that match
\* filter, when given, and have a matching line, when contains is given; in
\* particular filter is still applied when pattern is given.
C17_CriteriaCombine ==
  Returned /\ WellFormed /\ IsDir(fs, treq.Path) =>
    /\ tresp.Error = ""
    /\ \A f \in fs :
         Flat(f) \in FilesOf(tresp.Matches) <=>
           /\ f \in Listed
           /\ treq.Filter = NoRegex \/ MatchPath(treq.Filter, f)
           /\ treq.Contains = NoRegex \/ HasMatchingLine(f)

\* v2 was given a pattern and a filter and returned a file whose path the
\* filter does not match
C17_FilterIgnoredWithPattern ==
  /\ Returned /\ WellFormed
  /\ impl = 2
  /\ treq.Pattern # "" /\ treq.Filter # NoRegex
  /\ \E f \in fs : Flat(f) \in FilesOf(tresp.Matches) /\ ~MatchPath(treq.Filter, f)
\* the request has the search stat or read every entry that it returns
StatsOrReads == treq.Pattern # "" \/ treq.Contains # NoRegex

\* C18: when a file or directory is removed by another process after it was
\* listed but before it is stat'ed or read, the search still completes
\* successfully, omits the removed entry and reports no error, in glob mode
\* and in walk mode alike.
C18_RemovalTolerated ==
  Returned =>
    \A x \in removed :
      x.listed # {} =>
        /\ tresp.Error = ""
        /\ StatsOrReads =>
             FilesOf(tresp.Matches) \cap {Flat(q) : q \in x.listed} = {}

\* walk mode: a directory below the root was removed after it was listed and
\* the search failed with the error of reading it
C18_WalkFailsOnRemovedDir ==
  /\ Returned
  /\ treq.Pattern = ""
  /\ \E x \in removed : x.path \in x.listed
  /\ tresp.Error = "failed during file walk"

\* glob mode: a listed file was removed before its stat, and the search
\* succeeded without it
C18_GlobOmitsRemoved ==
  /\ Returned
  /\ treq.Pattern # ""
  /\ \E x \in removed :
       x.listed # {} /\ FilesOf(tresp.Matches) \cap {Flat(q) : q \in x.listed} = {}
  /\ tresp.Error = ""
  /\ tresp.Matches # <<>>

\* ------------------------------------------------ both tools: the claims

\* C19: every invocation of the search tool and of the edit tool, for
\* arbitrary (malformed or empty) arguments, returns a response together with
\* a nil Go error; failures are reported only as strings in the response's
\* Error field.
C19_NeverGoError ==
  /\ epc[1] = "done" => resp[1].err = NilError
  /\ Returned => tresp.err = NilError

\* a search with a malformed regex has returned: its failure is the Error
\* string of the response
C19_Witness ==
  /\ tool = "search_files"
  /\ Returned
  /\ InvalidRegex
  /\ tresp.Error \in InvalidPatternErrors
  /\ tresp.err = NilError

\* an edit with an empty path has returned: its failure is the Error string
\* of the response
C19_EditFailed ==
  /\ tool = "edit_go_file"
  /\ epc[1] = "done"
  /\ req[1].Path = ""
  /\ resp[1].Error # NoText
  /\ resp[1].err = NilError

\* ------------------------------------ the structured edits: the claims

\* C20: structured edits are idempotent: after a call that applied the edit
\* (or found nothing to do), the same AddImport, AddDeclaration or AddFunction
\* reports "already exists" and the same RemoveImport reports "not found", and
\* the file is byte-identical to its state after the first call.
C20_StructuredIdempotent ==
  apc = "done" /\ aresp[1] \in {"success", NoOpReport(aop)} =>
    /\ aresp[2] = NoOpReport(aop)
    /\ afile = afile1

\* an AddImport was applied to a file without that import, into a block that
\* the formatter reordered, and the second call found it
C20_Witness ==
  /\ apc = "done"
  /\ aop.op = "AddImport" /\ aop.name = "fmt"
  /\ aresp = <<"success", "already exists">>
  /\ afile = afile1
  /\ Len(afile) = MaxDecls + 1
  /\ afile[1] = ImportLine("fmt", aop.alias)

\* a RemoveImport was applied and the second call found nothing
C20_RemoveTwice ==
  /\ apc = "done"
  /\ aop.op = "RemoveImport"
  /\ aresp = <<"success", "not found">>
  /\ afile = afile1
\* the lines after the call are the lines before it with exactly the
\* inclusive 1-indexed range startLine..endLine replaced by newText
RangeReplacedExactly ==
  LET n == Len(aop.newText)
      w == aop.endLine - aop.startLine + 1
  IN  /\ Len(afile) = Len(afile1) - w + n
      /\ \A i \in 1..Len(afile1) :
           /\ i < aop.startLine => afile[i] = afile1[i]
           /\ i > aop.endLine => afile[i - w + n] = afile1[i]
      /\ \A j \in 1..n : afile[aop.startLine - 1 + j] = aop.newText[j]

C21_ReversedRefused ==
  /\ apc = "done"
  /\ aop.valid
  /\ aop.endLine < aop.startLine /\ aop.startLine <= Len(afile1) /\ aop.endLine >= 1
  /\ aresp = <<"range error">>
\* ------------------------------------------- the step-5 agent: the claims

\* the messages of the turns before t whose stream completed, in order
RECURSIVE Expected(_)
Expected(t) ==
  IF t <= 1 THEN <<>>
  ELSE Expected(t - 1)
         \o (IF Completes(stream[t - 1]) THEN Saved(t - 1, stream[t - 1]) ELSE <<>>)

\* C22: at the start of every turn the History passed to the graph holds, in
\* order and each exactly once, the user message and the response of every
\* earlier turn whose stream completed.
C22_HistoryComplete ==
  \A t \in 1..Len(History) : History[t] = Expected(t)

\* the second turn started without the completed first turn in its History
C22_TurnMissing ==
  /\ agent = "copy"
  /\ Len(History) = 2
  /\ stream[1] = "chunks"
  /\ History[2] = <<>>

\* the second turn started with the first user message and not its response
C22_ResponseMissing ==
  /\ agent = "copy"
  /\ Len(History) = 2
  /\ stream[1] = "chunks"
  /\ History[2] = <<UserMsg(1)>>

\* the goroutines of two turns have finished and the conversation has lost
\* the first turn
C22_TurnLost ==
  /\ agent = "copy"
  /\ turn = 2 /\ Completes(stream[1]) /\ Completes(stream[2])
  /\ \A t \in 1..2 : saver[t].pc = "exit"
  /\ \A i \in 1..Len(conversation) : conversation[i].turn # 1

\* agent.go keeps the History complete
C22_SyncComplete == agent = "sync" => C22_HistoryComplete
\* ---------------------------------------------------- read_file: the claims

\* the call returned a response without an error text
ReadSucceeded == rdpc = "done" /\ rresp.Error = ""

\* C23: on every successful read_file call TotalLines is the number of lines
\* of the file, whatever start_line and end_line were.
C23_TotalLinesIsFileLength ==
  ReadSucceeded => rresp.TotalLines = Len(target.lines)

\* the streaming version stopped counting at the cap: start_line without
\* end_line on a file longer than maxLinesToRead
C23_TotalStopsAtCap ==
  /\ ReadSucceeded /\ reader = "stream"
  /\ rreq.StartLine = <<1>> /\ rreq.EndLine = <<>>
  /\ Len(target.lines) > maxLinesToRead
  /\ rresp.TotalLines = maxLinesToRead

\* the whole-file version counted the empty string after the final newline
C23_FinalNewlineCounted ==
  /\ ReadSucceeded /\ reader = "whole"
  /\ target.nl
  /\ rresp.TotalLines = Len(target.lines) + 1

\* C30: a successful response has 1 <= StartLine <= EndLine <= TotalLines and
\* its Content is exactly the lines StartLine..EndLine of the file, each with
\* its own number (at most maxLinesToRead of them in the streaming version);
\* a request with end_line < start_line, or with start_line beyond the end of
\* the file, gets an error.
C30_RangeAndContent ==
  rdpc = "done" /\ rreq.Path # "" /\ target.kind = "file" =>
    /\ rresp.Error = "" =>
         /\ 1 <= rresp.StartLine
         /\ rresp.StartLine <= rresp.EndLine
         /\ rresp.EndLine <= rresp.TotalLines
         /\ rresp.EndLine <= Len(target.lines)
         /\ Len(rresp.Content) = rresp.EndLine - rresp.StartLine + 1
         /\ \A i \in 1..Len(rresp.Content) :
              rresp.Content[i] =
                Numbered(rresp.StartLine + i - 1, target.lines[rresp.StartLine + i - 1])
         /\ reader = "stream" => Len(rresp.Content) <= maxLinesToRead
    /\ rreq.StartLine # <<>> /\ rreq.EndLine # <<>> /\ rreq.EndLine[1] < rreq.StartLine[1]
         => rresp.Error # ""
    /\ rreq.StartLine # <<>> /\ rreq.StartLine[1] > Len(target.lines)
         => rresp.Error # ""

\* the streaming version answered a read of an empty file past its end
C30_EmptyFileRead ==
  /\ ReadSucceeded /\ reader = "stream"
  /\ target.lines = <<>>
  /\ rreq.StartLine = <<2>>
  /\ rresp.StartLine = 2 /\ rresp.EndLine = 0

\* the whole-file version returned a line after the last line of the file
C30_LineAfterEndReturned ==
  /\ ReadSucceeded /\ reader = "whole"
  /\ rresp.EndLine = Len(target.lines) + 1
  /\ rresp.Content[Len(rresp.Content)] = Numbered(rresp.EndLine, "")

\* the streaming version read end_line = -1 as no end_line
C30_MinusOneIsNoEnd ==
  /\ ReadSucceeded /\ reader = "stream"
  /\ rreq.StartLine = <<2>> /\ rreq.EndLine = <<-1>>
\* --------------------------------------------------- the calculator: claims

FourOperations == {"add", "subtract", "multiply", "divide"}

\* C24: the calculator returns a result and no error for add, subtract,
\* multiply, and for divide with b # 0; it returns an error and no result for
\* divide with b = 0 and for every other operation name.
C24_ResultOrError ==
  cpc = "done" =>
    IF creq.Operation \in FourOperations /\ ~(creq.Operation = "divide" /\ creq.B = Frac(0, 1))
      THEN cresp.err = NilError /\ Len(cresp.resp) = 1
      ELSE cresp.err # NilError /\ cresp.resp = <<>>

\* a division by zero was refused
C24_Witness ==
  /\ cpc = "done"
  /\ creq.Operation = "divide" /\ creq.B = Frac(0, 1) /\ creq.A = Frac(1, 1)
  /\ cresp = CalculateError("cannot divide by zero")

\* a division gave its quotient
C24_Divided ==
  /\ cpc = "done"
  /\ creq.Operation = "divide" /\ creq.A = Frac(1, 1) /\ creq.B = Frac(-2, 1)
  /\ cresp = Calculated(Frac(-1, 2))
\* ------------------------------------- edit_go_file: the bytes written

\* the places of s where sub occurs
Places(s, sub) == {i \in 1..Len(s) : HasPrefixAt(s, sub, i)}

\* s with the len bytes at place i replaced by new, the other bytes kept
ReplacedAt(s, i, len, new) == SubSeq(s, 1, i - 1) \o new \o SubSeq(s, i + len, Len(s))

\* the file holds the replaced content r, formatted, or r itself (formatting
\* failed)
WrittenFrom(r) == disk = Format(r) \/ disk = r

\* C25: on a successful edit the bytes written are the canonical formatting of
\* the original content with its single occurrence of old_string replaced by
\* new_string (deleted when new_string is empty), or that replaced content
\* unformatted when formatting failed.
C25_WrittenIsFormattedReplacement ==
  Succeeded(1) =>
    \E i \in 1..Len(before) :
      /\ Places(before, req[1].OldString) = {i}
      /\ WrittenFrom(ReplacedAt(before, i, Len(req[1].OldString), req[1].NewString))

\* whenever old_string occurs at one place only, a successful edit wrote the
\* replacement at that place
C25_HoldsForOnePlace ==
  Succeeded(1) /\ Cardinality(Places(before, req[1].OldString)) = 1 =>
    C25_WrittenIsFormattedReplacement

\* a successful edit replaced the first of two overlapping occurrences
C25_FirstOfTwoReplaced ==
  /\ Succeeded(1)
  /\ Cardinality(Places(before, req[1].OldString)) = 2
  /\ LET i == Index(before, req[1].OldString)
     IN  WrittenFrom(ReplacedAt(before, i, Len(req[1].OldString), req[1].NewString))

\* an empty new_string deleted the one occurrence and the unformatted result
\* was written
C25_DeletedUnformatted ==
  /\ Succeeded(1)
  /\ req[1].NewString = <<>>
  /\ Cardinality(Places(before, req[1].OldString)) = 1
  /\ Len(disk) = Len(before) - Len(req[1].OldString)
  /\ disk # Format(disk)
\* ------------------------------------------ search_files: termination

\* no send on a channel has to wait: jobs has room for every file and results
\* for every match, and results is open while workers run
NeverBlocks ==
  /\ mpc = "enqueue" /\ next <= Len(files) => Len(jobs) < ChanCap
  /\ \A w \in Workers : wpc[w] = "send" => ~resultsClosed /\ Len(results) < ChanCap

\* once the wait has returned every worker that was started has exited
AllExited ==
  mpc \in {"collect", "returned"} => \A w \in 1..numWorkers : wpc[w] = "exited"

\* C26: every content search over a finite candidate list terminates:
\* enqueuing never blocks, no worker blocks sending a result, every worker
\* exits after the job channel is closed, and under fair scheduling the wait
\* returns and the search returns its matches.
C26_SearchTerminates ==
  /\ [](NeverBlocks /\ AllExited)
  /\ <>(mpc = "returned")

\* a search of more files than workers returned, with matches
C26_Witness ==
  /\ mpc = "returned"
  /\ Len(files) > numWorkers
  /\ Len(matches) > 1
  /\ \A w \in 1..numWorkers : wpc[w] = "exited"

\* a search of no file returned, with more than one worker
C26_EmptyListReturned ==
  /\ mpc = "returned"
  /\ files = <<>>
  /\ numWorkers > 1
\* --------------------------------------------- the chat loops: the claims

\* close(done) is never called twice, never panics, and has been called once
\* when the stream of a turn has ended
ClosedOnce ==
  /\ lpc # "panic"
  /\ \A t \in Turns :
       /\ closes[t] <= 1
       /\ ended[t] \in {"eof", "error"} => closes[t] = 1 /\ doneCh[t] = "closed"
       /\ closes[t] = 1 <=> doneCh[t] = "closed"

\* C27: in each turn of the chat loops of steps 2 and 4 the spinner's done
\* channel is closed exactly once, whether the stream ends at once, after
\* chunks, or with an error before or after the first chunk, and the spinner
\* goroutine of the turn eventually exits.
C27_DoneClosedOnce ==
  /\ []ClosedOnce
  /\ \A t \in Turns : (spin[t] # "none") ~> (spin[t] = "exited")

\* a stream that gave chunks ended with an error, done was closed once and the
\* spinner has exited
C27_Witness ==
  /\ lturn = 1
  /\ ended[1] = "error"
  /\ chunks = MaxChunks
  /\ closes[1] = 1
  /\ spin[1] = "exited"

\* a stream ended before its first chunk and done was closed once
C27_ClosedOnImmediateEnd ==
  /\ ended[1] = "eof"
  /\ chunks = 0
  /\ lturn = 1
  /\ closes[1] = 1
  /\ spin[1] = "exited"

\* the spinner of the first turn still runs when the second turn has started
C27_TwoSpinners ==
  /\ spin[1] = "spin"
  /\ spin[2] = "select"
\* ------------------------------------------ the terminal UI: the claims

\* no tool runs: the last callback to return was OnEndFn or OnErrorFn
AfterEnd == upc = "idle" /\ tools > 0

\* the spinner is stopped between a tool's end and the next tool's start
StoppedAfterEnd == AfterEnd => ~isActive /\ live = 0

\* at most one goroutine runs the select loop
OneSpinner == live <= 1

\* C28: once OnEndFn or OnErrorFn of the tool that started the spinner has
\* returned, the spinner is stopped and stays stopped until the next
\* OnStartFn, for every interleaving of the launched Start with Stop; at most
\* one spinner goroutine exists; Stop never blocks forever.
C28_SpinnerStopsWithTool ==
  /\ [](StoppedAfterEnd /\ OneSpinner)
  /\ (upc = "stopping") ~> (upc = "idle")

\* the two parts of the claim that hold of the code
C28_OneSpinnerAndStopReturns ==
  /\ []OneSpinner
  /\ (upc = "stopping") ~> (upc = "idle")

\* the last tool has ended and the spinner of an earlier tool prints on
C28_SpinnerLeftRunning ==
  /\ AfterEnd
  /\ tools = MaxTools
  /\ starting = {}
  /\ isActive /\ live = 1
  /\ frame = 2

\* Start ran before Stop and the spinner was stopped with its tool
C28_StoppedInOrder ==
  /\ AfterEnd
  /\ tools = 1
  /\ starting = {}
  /\ ~isActive /\ live = 0
  /\ frame = 1
\* ------------------------------- search_files: the skip-list in both modes

\* what the loop over the glob matches keeps of one match
GlobKeeps(F, r, e) ==
  IF impl = 1
    THEN IF IsFile(F, e.path) /\ ~isPathInSkippedDir(e.path)
           THEN <<ListMatch(Flat(e.path))>> ELSE <<>>
  ELSE GlobAppendV2(F, r, e)

\* the files that the glob mode returns for the pattern "**" below r.Path
GlobMode(F, r) ==
  LET g == Glob(F, r.Path, "**")
  IN  UNION {FilesOf(GlobKeeps(F, r, g[i])) : i \in 1..Len(g)}

\* filepath.WalkDir over the entries still to visit: the callback, then the
\* entries of a directory that is not skipped, before the rest
RECURSIVE WalkDir(_, _, _)
WalkDir(F, r, es) ==
  IF es = <<>> THEN <<>>
  ELSE LET e == Head(es)
       IN  (IF impl = 1
              THEN (IF e.isDir THEN <<>> ELSE <<ListMatch(Flat(e.path))>>)
            ELSE WalkAppendV2(F, r, e))
           \o WalkDir(F, r, (IF Descends(r, e) THEN ReadDir(F, e.path) ELSE <<>>)
                              \o Tail(es))

\* the files that the walk mode returns below r.Path
WalkMode(F, r) == FilesOf(WalkDir(F, r, <<Entry(F, r.Path)>>))

\* a search of a directory for all files, by the walk or by the pattern "**",
\* has returned and the tree did not change under it
AllFilesSearched ==
  /\ Returned /\ tresp.Error = ""
  /\ removed = {}
  /\ treq.Pattern \in {"", "**"}
  /\ treq.Filter = NoRegex /\ treq.Contains = NoRegex
  /\ IsDir(fs, treq.Path)

\* what the mode that the request did not use returns for it
OtherMode == IF treq.Pattern = "" THEN GlobMode(fs, treq) ELSE WalkMode(fs, treq)

\* the operators of the two modes return what the handler in that mode returned
ModesAsRun ==
  AllFilesSearched =>
    FilesOf(tresp.Matches) =
      IF treq.Pattern = "" THEN WalkMode(fs, treq) ELSE GlobMode(fs, treq)

\* C29: candidate collection applies the skip-list identically in glob mode
\* and in walk mode: for any root and tree, a regular file under the root is
\* left out with the pattern "**" if and only if the pattern-less walk leaves
\* it out, the components of the root itself included.
C29_SkipListSameInBothModes ==
  AllFilesSearched =>
    \A f \in fs :
      IsPrefix(treq.Path, f) =>
        (Flat(f) \in FilesOf(tresp.Matches) <=> Flat(f) \in OtherMode)

\* the serial tool tests the same substring of the same path in both modes
C29_SerialSame == impl = 2 => C29_SkipListSameInBothModes

\* the parallel tool, root vendor/r: the walk returned the file below it, which
\* the glob leaves out for the "vendor" of the root
C29_RootComponentOnlyInGlob ==
  /\ AllFilesSearched
  /\ impl = 1
  /\ treq.Pattern = ""
  /\ treq.Path = <<NameVendor, NameR>>
  /\ Flat(<<NameVendor, NameR, NameAGo>>) \in FilesOf(tresp.Matches)
  /\ Flat(<<NameVendor, NameR, NameAGo>>) \notin GlobMode(fs, treq)

\* the parallel tool, root r: both modes leave out the file below r/vendor
C29_BelowRootSame ==
  /\ AllFilesSearched
  /\ impl = 1
  /\ treq.Pattern = "**"
  /\ treq.Path = <<NameR>>
  /\ <<NameR, NameVendor, NameAGo>> \in fs
  /\ Flat(<<NameR, NameVendor, NameAGo>>) \notin FilesOf(tresp.Matches) \cup OtherMode
  /\ Flat(<<NameR, NameAGo>>) \in FilesOf(tresp.Matches) \cap OtherMode
====
